---- MODULE Spec2Model ----
(***************************************************************************)
(* Verification model of the Kalshi weather trading daemon.                *)
(*                                                                         *)
(*   Spec       the settle / execute cycle of the kalshi package:          *)
(*              kalshi.settlement.check_settled, kalshi.state.record_pnl,  *)
(*              kalshi.execution.execute_trades and its helpers.           *)
(*   SpecAlerts the circuit-breaker alert throttle of execute_trades over  *)
(*              a run of calls with the breaker open.                      *)
(*   SpecKelly  kalshi.probability.kelly_size as a pure function.          *)
(*   SpecDaemon kalshi_unified.main with the whole-file JSON writers       *)
(*              (save_state, save_pnl, save_accuracy_history).             *)
(*   SpecScanner  kalshi.scanner.find_opportunities over the markets of    *)
(*              one scan: _scan_market, the YES / NO evaluators, the sort. *)
(*   SpecAccuracy weather_providers.WeatherEnsemble.record_accuracy over   *)
(*              the accuracy histories a process can start from.           *)
(*   SpecEnsemble WeatherEnsemble.get_ensemble_forecast with               *)
(*              _get_adjusted_weight, as exact fractions and as doubles.   *)
(*                                                                         *)
(* Money is in integer cents, time.time() in integer seconds, dates are    *)
(* day numbers (86400-second days), target dates are day numbers too.      *)
(***************************************************************************)
EXTENDS Integers, Sequences, FiniteSets, TLC

VARIABLES
    \* ---- environment of one process --------------------------------------
    paper,            \* config.PAPER_TRADING
    now,              \* time.time()
    \* ---- kalshi.state ----------------------------------------------------
    state,            \* the state dict: positions, daily_trades, ...
    pnl_file,         \* the P&L ledger document behind load_pnl / save_pnl
    \* ---- kalshi.execution ------------------------------------------------
    last_alert,       \* _last_circuit_breaker_alert
    alerts,           \* history: time of every notify_system_alert call
    pc,               \* position of the cycle
    cycle,            \* number of the cycle
    settle,           \* locals of check_settled (+ history of the call)
    exec,             \* locals of execute_trades (+ history of the call)
    \* ---- kelly_size as a function (SpecKelly) ----------------------------
    kelly,
    \* ---- main loop and files (SpecDaemon) --------------------------------
    daemon,
    \* ---- kalshi.scanner (SpecScanner) ------------------------------------
    scan,             \* locals of find_opportunities (+ history of the scan)
    \* ---- weather_providers.WeatherEnsemble (SpecEnsemble) ----------------
    wx                \* accuracy_history, the last get_ensemble_forecast call

vars == <<paper, now, state, pnl_file, last_alert, alerts, pc, cycle, settle, exec,
          kelly, daemon, scan, wx>>

-----------------------------------------------------------------------------
(* Bounds of the model *)

MaxCycles == 2        \* cycles of the settle / execute loop that are explored
MaxOpps   == 2        \* opportunities handed to one execute_trades call
MaxCalls  == 6        \* execute_trades calls while the breaker stays open
DocChunks == 2        \* write() calls json.dump needs for one document

-----------------------------------------------------------------------------
(* kalshi/config.py *)

MAX_CONTRACTS                  == 8
MAX_COST_PER_TRADE             == 500
MAX_OPEN_POSITIONS             == 20
MAX_DAILY_TRADES               == 40
MAX_PER_GROUP                  == 2
MAX_DAILY_LOSS_CENTS           == 500
MAX_WEEKLY_LOSS_CENTS          == 1000
CIRCUIT_BREAKER_ALERT_INTERVAL == 3600
AFFORD_BUFFER                  == 500
PAPER_BALANCE                  == 100000

CORRELATION_GROUPS ==
    [ gulf_south    |-> {"HOU", "NOLA", "DAL", "OKC"},
      northeast     |-> {"BOS", "DC"},
      pacific       |-> {"SEA", "SFO"},
      southeast     |-> {"ATL"},
      desert        |-> {"PHX"},
      north_central |-> {"MIN"} ]

get_correlation_group(city) ==
    IF \E g \in DOMAIN CORRELATION_GROUPS : city \in CORRELATION_GROUPS[g]
    THEN CHOOSE g \in DOMAIN CORRELATION_GROUPS : city \in CORRELATION_GROUPS[g]
    ELSE city

-----------------------------------------------------------------------------
(* Clock: datetime.now() and datetime.now(timezone.utc) *)

\* The host runs on US Central time.  The explored period starts at 23:57:30
\* local time of day 0, which is 05:57:30 UTC of day 1, so the local and the
\* UTC date differ until local midnight.
SECONDS_PER_DAY == 86400
LocalOffset     == 0 - 6 * 3600
StartTime       == SECONDS_PER_DAY - LocalOffset - 150
NoDate          == 0 - 1                         \* last_trade_date == ""

UtcDay(t)   == t \div SECONDS_PER_DAY
LocalDay(t) == (t + LocalOffset) \div SECONDS_PER_DAY
\* strftime("%Y-W%U"): weeks start on Sunday; day 0 of the model is a Saturday
WeekKey(t)  == (LocalDay(t) + 6) \div 7

\* get_poll_interval(): 300 around model updates, 600 shortly after, 1800 in
\* quiet hours
get_poll_interval(t) ==
    LET hour == ((t + LocalOffset) % SECONDS_PER_DAY) \div 3600 IN
    IF hour \in {4, 5, 10, 11, 16, 17, 22, 23} THEN 300
    ELSE IF hour \in {6, 7, 12, 13, 18, 19} THEN 600
    ELSE 1800

-----------------------------------------------------------------------------
(* Small helpers *)

RECURSIVE SumSeq(_)
SumSeq(s) == IF s = <<>> THEN 0 ELSE Head(s) + SumSeq(Tail(s))

Max(a, b) == IF a > b THEN a ELSE b
Min(a, b) == IF a < b THEN a ELSE b

-----------------------------------------------------------------------------
(* Inputs: the markets the scanner can return opportunities for.  A ticker  *)
(* is its event ticker followed by a strike suffix, as on the venue.        *)

Markets ==
    { [ticker |-> "HOU-D1-T90",  event_ticker |-> "HOU-D1",  city |-> "HOU",  target_date |-> 1],
      [ticker |-> "HOU-D1-B85",  event_ticker |-> "HOU-D1",  city |-> "HOU",  target_date |-> 1],
      [ticker |-> "DAL-D1-T90",  event_ticker |-> "DAL-D1",  city |-> "DAL",  target_date |-> 1],
      [ticker |-> "NOLA-D2-T90", event_ticker |-> "NOLA-D2", city |-> "NOLA", target_date |-> 2] }

\* side, price and fair values of an opportunity (scanner.py:165-176, 269-280)
Quote(m) ==
    CASE m.ticker = "HOU-D1-T90"  -> { [side |-> "yes", price |-> 40, fair |-> 52, model_fair |-> 60],
                                       [side |-> "no",  price |-> 75, fair |-> 90, model_fair |-> 100] }
      [] m.ticker = "HOU-D1-B85"  -> { [side |-> "no",  price |-> 70, fair |-> 82, model_fair |-> 90] }
      [] m.ticker = "DAL-D1-T90"  -> { [side |-> "yes", price |-> 40, fair |-> 52, model_fair |-> 60] }
      [] m.ticker = "NOLA-D2-T90" -> { [side |-> "no",  price |-> 70, fair |-> 82, model_fair |-> 90] }

Opportunities ==
    UNION { { [ticker |-> m.ticker, event_ticker |-> m.event_ticker, city |-> m.city,
               target_date |-> m.target_date, side |-> q.side, price |-> q.price,
               fair |-> q.fair, model_fair |-> q.model_fair] : q \in Quote(m) } : m \in Markets }

\* str.startswith between a market ticker and an event ticker
StartsWith(ticker, et) ==
    \E m \in Markets : m.ticker = ticker /\ m.event_ticker = et

\* what the venue can report in live mode: get_real_balance, get_positions
\* (held: event tickers with exposure; others: open events outside Markets).
\* An order that rests unfilled has no exposure: the venue does not report it
\* although state.positions holds it.
LiveBalances    == {0, 560}
VenuePortfolios == { [held |-> {},         others |-> 0],
                     [held |-> {"HOU-D1"}, others |-> MAX_OPEN_POSITIONS - 2],
                     [held |-> {},         others |-> MAX_OPEN_POSITIONS - 1] }
VenueResults    == {"order", "rejected", "raise"}

\* get_balance() and get_positions(): simulated in paper mode
\* (paper_trading_safety.py:59-74), the venue's answer in live mode
get_balance(is_paper)   == IF is_paper THEN {PAPER_BALANCE} ELSE LiveBalances
get_positions(is_paper) == IF is_paper THEN {[held |-> {}, others |-> 0]}
                                       ELSE VenuePortfolios

-----------------------------------------------------------------------------
(* kalshi/state.py *)

EmptyBucket == [pnl_cents |-> 0, trades |-> 0, wins |-> 0, losses |-> 0]

\* load_state() when the state file does not exist
load_state_default ==
    [positions |-> <<>>, daily_trades |-> 0, last_trade_date |-> NoDate,
     total_pnl_cents |-> 0]

\* load_state() when the state file holds positions opened earlier on local
\* day 0 by a previous run of the daemon in the same mode: the first before
\* 18:00 local time (UTC day 0), the second, if held = 2, after it (UTC day 1)
load_state_saved(is_paper, held) ==
    LET saved == << [ticker |-> "HOU-D1-T90", side |-> "yes", count |-> 8, price |-> 40,
                     city |-> "HOU", target_date |-> 1, city_date |-> <<"HOU", 1>>,
                     trade_date |-> 0, paper_trade |-> is_paper],
                    [ticker |-> "NOLA-D2-T90", side |-> "no", count |-> 7, price |-> 70,
                     city |-> "NOLA", target_date |-> 2, city_date |-> <<"NOLA", 2>>,
                     trade_date |-> 1, paper_trade |-> is_paper] >>
    IN  [positions |-> SubSeq(saved, 1, held),
         daily_trades |-> held, last_trade_date |-> 0, total_pnl_cents |-> 0]

\* load_pnl() when the ledger file does not exist.  A bucket that is not in
\* the document reads as zero (state.py:50-53, execution.py:45-49), so the
\* two mappings are total over the keys of the explored period.
LedgerKeys == 0..1
load_pnl_default ==
    [daily |-> [k \in LedgerKeys |-> EmptyBucket],
     weeks |-> [k \in LedgerKeys |-> EmptyBucket]]

AddToBucket(f, k, amount_cents) ==
    [f EXCEPT ![k] =
        [pnl_cents |-> @.pnl_cents + amount_cents,
         trades    |-> @.trades + 1,
         wins      |-> IF amount_cents > 0 THEN @.wins + 1 ELSE @.wins,
         losses    |-> IF amount_cents > 0 THEN @.losses ELSE @.losses + 1]]

\* record_pnl(amount_cents, ticker): the ledger after the call at time t
record_pnl_daily_only(pnl, amount_cents, t) ==
    [pnl EXCEPT !.daily = AddToBucket(pnl.daily, LocalDay(t), amount_cents)]
record_pnl(pnl, amount_cents, t) ==
    [daily |-> AddToBucket(pnl.daily, LocalDay(t), amount_cents),
     weeks |-> AddToBucket(pnl.weeks, WeekKey(t), amount_cents)]

-----------------------------------------------------------------------------
(* kalshi/settlement.py: check_settled, one position per step *)

\* what the venue answers for one position, and whether record_pnl then
\* raises (load_pnl on an unreadable ledger, save_pnl on a failed write)
MarketAnswers == {"raise", "open", "yes", "no"}

\* locals i, new_positions; history of the call: the positions and the total
\* at entry, and per position "open" (no result yet), "error" (an exception
\* was raised while processing it) or the result the venue reported
NoSettle == [i |-> 0, new_positions |-> <<>>, before |-> <<>>,
             pnl_before |-> 0, outcomes |-> <<>>]

\* settlement.py:84-85
settlement_pnl(pos, result) ==
    IF result = pos.side THEN (100 - pos.price) * pos.count
                         ELSE -(pos.price * pos.count)

\* settlement.py:110-112: the handler of an exception raised for one position
on_settle_error_drops(new_positions, pos) == new_positions
on_settle_error(new_positions, pos) == Append(new_positions, pos)

CheckSettledBegin ==
    /\ pc = "cycle"
    /\ settle' = [i |-> 1, new_positions |-> <<>>, before |-> state.positions,
                  pnl_before |-> state.total_pnl_cents, outcomes |-> <<>>]
    /\ pc' = "settle"
    /\ UNCHANGED <<scan, wx, paper, now, state, pnl_file, last_alert, alerts, cycle, exec, kelly, daemon>>

\* kalshi_request raised, or the market has no result yet: the position is kept
SettleKeep(answer) ==
    /\ pc = "settle"
    /\ settle.i <= Len(state.positions)
    /\ answer \in {"raise", "open"}
    /\ LET pos == state.positions[settle.i] IN
       settle' = [settle EXCEPT
                    !.i = @ + 1,
                    !.new_positions = IF answer = "raise"
                                      THEN on_settle_error(@, pos)
                                      ELSE Append(@, pos),
                    !.outcomes = Append(@, IF answer = "raise" THEN "error" ELSE "open")]
    /\ UNCHANGED <<scan, wx, paper, now, state, pnl_file, last_alert, alerts, pc, cycle, exec, kelly, daemon>>

\* the market has a result: total_pnl_cents is updated, the settlement is
\* logged and notified, and record_pnl rewrites the ledger
SettleResolve(result) ==
    /\ pc = "settle"
    /\ settle.i <= Len(state.positions)
    /\ result \in {"yes", "no"}
    /\ LET pos == state.positions[settle.i]
           amt == settlement_pnl(pos, result) IN
       /\ state' = [state EXCEPT !.total_pnl_cents = @ + amt]
       /\ pnl_file' = record_pnl(pnl_file, amt, now)
       /\ settle' = [settle EXCEPT !.i = @ + 1, !.outcomes = Append(@, result)]
    /\ UNCHANGED <<scan, wx, paper, now, last_alert, alerts, pc, cycle, exec, kelly, daemon>>

\* the market has a result but record_pnl raises after total_pnl_cents was
\* updated (settlement.py:86 precedes settlement.py:108): the handler keeps
\* the position
SettleResolveLedgerError(result) ==
    /\ pc = "settle"
    /\ settle.i <= Len(state.positions)
    /\ result \in {"yes", "no"}
    /\ LET pos == state.positions[settle.i]
           amt == settlement_pnl(pos, result) IN
       /\ state' = [state EXCEPT !.total_pnl_cents = @ + amt]
       /\ settle' = [settle EXCEPT
                       !.i = @ + 1,
                       !.new_positions = on_settle_error(@, pos),
                       !.outcomes = Append(@, "error")]
    /\ UNCHANGED <<scan, wx, paper, now, pnl_file, last_alert, alerts, pc, cycle, exec, kelly, daemon>>

\* settlement.py:114
CheckSettledReturn ==
    /\ pc = "settle"
    /\ settle.i > Len(state.positions)
    /\ state' = [state EXCEPT !.positions = settle.new_positions]
    /\ pc' = "settled"
    /\ UNCHANGED <<scan, wx, paper, now, pnl_file, last_alert, alerts, cycle, settle, exec, kelly, daemon>>

-----------------------------------------------------------------------------
(* kalshi/probability.py: kelly_size *)

\* Python evaluates kelly_size in IEEE-754 doubles and truncates with int().
\* For integer-cent inputs the double quotient (bankroll * f_safe) / cost
\* differs from the exact quotient by far less than the distance between two
\* non-integer exact values, so int() differs from the exact floor only where
\* the exact quotient is an integer and the double lands just below it.
\* These are the inputs <<fair cents, price, bankroll>> where CPython does so,
\* among the fair/price pairs that the model uses: (60, 40) and (18, 10);
\* for (90, 70) the double quotient is exact at every integer up to 8.
DoubleLandsBelow ==
    { <<60, 40, 480 * k>> : k \in 1..MAX_CONTRACTS } \cup
    { <<18, 10, 450 * k>> : k \in 1..MAX_CONTRACTS }

\* kelly_size(fair_p, market_price_cents, bankroll_cents, fraction=0.25) with
\* fair_p = fair_cents / 100.0 (execution.py:169); rationals are kept as
\* numerator and denominator
kelly_size(fair_cents, market_price_cents, bankroll_cents) ==
    IF fair_cents <= 0 \/ fair_cents >= 100 \/ market_price_cents <= 0
    THEN 0
    ELSE LET cost   == market_price_cents
             payout == 100 - cost
             \* b = payout / cost, q = (100 - fair_cents) / 100
             \* f_star = (fair_p * b - q) / b
             f_star_num == fair_cents * payout - (100 - fair_cents) * cost
             f_star_den == 100 * payout
             \* f_safe = max(0, f_star * fraction), fraction = 1/4
             f_safe_num == Max(0, f_star_num)
             f_safe_den == 4 * f_star_den
             exact_floor == (bankroll_cents * f_safe_num) \div (f_safe_den * cost)
             max_contracts ==
                 IF <<fair_cents, market_price_cents, bankroll_cents>> \in DoubleLandsBelow
                 THEN exact_floor - 1
                 ELSE exact_floor
         IN  Max(0, Min(max_contracts, MAX_CONTRACTS))

-----------------------------------------------------------------------------
(* kalshi/execution.py *)

\* execution.py:51-56
today_exposure(st, t) ==
    SumSeq([i \in 1..Len(st.positions) |->
              IF st.positions[i].trade_date = LocalDay(t)
                 \/ st.positions[i].trade_date = UtcDay(t)
              THEN st.positions[i].count * st.positions[i].price
              ELSE 0])

\* check_circuit_breaker(pnl_data, state): can_trade
check_circuit_breaker(pnl_data, st, t) ==
    LET daily_pnl  == pnl_data.daily[LocalDay(t)].pnl_cents
        weekly_pnl == pnl_data.weeks[WeekKey(t)].pnl_cents
        effective_daily == daily_pnl - today_exposure(st, t)
    IN  IF effective_daily <= -MAX_DAILY_LOSS_CENTS THEN FALSE
        ELSE IF weekly_pnl - today_exposure(st, t) <= -MAX_WEEKLY_LOSS_CENTS THEN FALSE
        ELSE TRUE

\* execution.py:83-86: the breaker is consulted in paper and in live mode
breaker_closed_live_only(is_paper, pnl_data, st, t) ==
    is_paper \/ check_circuit_breaker(pnl_data, st, t)
breaker_closed(is_paper, pnl_data, st, t) == check_circuit_breaker(pnl_data, st, t)

\* execution.py:90: the throttle of the operator alert
alert_due_every_call(t, last) == t >= CIRCUIT_BREAKER_ALERT_INTERVAL
alert_due(t, last) == t - last >= CIRCUIT_BREAKER_ALERT_INTERVAL

\* execution.py:99-102: day rollover
rollover_keeps_count(st, t) == [st EXCEPT !.last_trade_date = LocalDay(t)]
rollover(st, t) ==
    IF st.last_trade_date # LocalDay(t)
    THEN [st EXCEPT !.daily_trades = 0, !.last_trade_date = LocalDay(t)]
    ELSE st

\* execution.py:113-121
initial_city_dates(st) ==
    { st.positions[i].city_date : i \in 1..Len(st.positions) } \cup
    { <<st.positions[i].city, st.positions[i].target_date>> : i \in 1..Len(st.positions) }

\* execution.py:125-130: the two conditions that end the loop
limit_reached_open_only(st, ex) ==
    ex.open_count + ex.trades_made >= MAX_OPEN_POSITIONS
limit_reached(st, ex) ==
    \/ st.daily_trades >= MAX_DAILY_TRADES
    \/ ex.open_count + ex.trades_made >= MAX_OPEN_POSITIONS

\* execution.py:136-138
already_positioned(opp, ex) ==
    \/ opp.ticker \in ex.all_held
    \/ opp.event_ticker \in ex.open_tickers
    \/ \E et \in ex.open_tickers : StartsWith(opp.ticker, et)

\* execution.py:144-148
group_count_same_city(st, city) ==
    Cardinality({ i \in 1..Len(st.positions) : st.positions[i].city = city })
group_count(st, city) ==
    Cardinality({ i \in 1..Len(st.positions) :
        get_correlation_group(st.positions[i].city) = get_correlation_group(city) })

\* execution.py:149
group_at_limit(st, city) == group_count(st, city) >= MAX_PER_GROUP

\* execution.py:154-163
city_date_taken_this_call(opp, st, ex) ==
    /\ opp.target_date # NoDate
    /\ \E i \in 1..Len(ex.placed) :
          /\ ex.placed[i].city = opp.city
          /\ ex.placed[i].target_date = opp.target_date
city_date_taken(opp, st, ex) ==
    /\ opp.target_date # NoDate
    /\ \/ \E i \in 1..Len(st.positions) :
             /\ st.positions[i].city = opp.city
             /\ st.positions[i].target_date = opp.target_date
       \/ <<opp.city, opp.target_date>> \in ex.city_date_traded

\* execution.py:167-181: Kelly count on the model's fair value, then the
\* cost cap; 0 when the opportunity is skipped
sized_count_uncapped(opp, balance) == kelly_size(opp.model_fair, opp.price, balance)
sized_count(opp, balance) ==
    LET count == kelly_size(opp.model_fair, opp.price, balance) IN
    IF count < 1 THEN 0
    ELSE IF count * opp.price > MAX_COST_PER_TRADE
         THEN MAX_COST_PER_TRADE \div opp.price
         ELSE count

\* execution.py:183-185
unaffordable_without_buffer(total_cost, balance) == total_cost > balance
unaffordable(total_cost, balance) == total_cost > balance - AFFORD_BUFFER

\* the first `continue` of the loop body that applies, execution.py:136-185
skip_reason(opp, st, ex) ==
    IF already_positioned(opp, ex) THEN "positioned"
    ELSE IF group_at_limit(st, opp.city) THEN "group"
    ELSE IF city_date_taken(opp, st, ex) THEN "city_date"
    ELSE IF kelly_size(opp.model_fair, opp.price, ex.balance) < 1 THEN "kelly"
    ELSE IF sized_count(opp, ex.balance) < 1 THEN "cost_cap"
    ELSE IF unaffordable(sized_count(opp, ex.balance) * opp.price, ex.balance) THEN "afford"
    ELSE "none"

\* execution.py:192-203
position_record(opp, count, t, is_paper) ==
    [ticker |-> opp.ticker, side |-> opp.side, count |-> count, price |-> opp.price,
     city |-> opp.city, target_date |-> opp.target_date,
     city_date |-> <<opp.city, opp.target_date>>,
     trade_date |-> UtcDay(t), paper_trade |-> is_paper]

\* _execute_paper returns 1; _execute_live returns 1 only when the venue's
\* answer holds an order (execution.py:269, 277-296)
execute_result(is_paper, venue) ==
    IF is_paper THEN 1 ELSE IF venue = "order" THEN 1 ELSE 0


\* locals of execute_trades, then the history of the call: the state at
\* entry, whether the breaker was open, the reason of the skip just taken, the
\* orders that were placed (paper: simulated), how the call ended and what it
\* returned
NoExec == [balance |-> 0, open_count |-> 0, open_tickers |-> {}, all_held |-> {},
           city_date_traded |-> {}, trades_made |-> 0, n |-> 0,
           before |-> load_state_default, tripped |-> FALSE, last_skip |-> "none",
           placed |-> <<>>, outcome |-> "none", ret |-> 0,
           \* the balance fetched at the start of the call and, per order
           \* placed, the Kelly count and the working balance it was sized on
           start_balance |-> 0, sizing |-> <<>>]

\* return trades_made: the locals go, the history of the call stays
Returned(ex) ==
    [NoExec EXCEPT !.before = ex.before, !.placed = ex.placed,
                   !.outcome = "returned", !.ret = ex.trades_made,
                   !.start_balance = ex.start_balance, !.sizing = ex.sizing]

\* execution.py:84-97: the circuit breaker is open; alert at most once per
\* interval and return 0
ExecuteTradesTripped ==
    /\ pc = "settled"
    /\ ~breaker_closed(paper, pnl_file, state, now)
    /\ IF alert_due(now, last_alert)
       THEN /\ alerts' = Append(alerts, now)
            /\ last_alert' = now
       ELSE UNCHANGED <<alerts, last_alert>>
    /\ exec' = [NoExec EXCEPT !.before = state, !.tripped = TRUE,
                              !.outcome = "returned", !.ret = 0]
    /\ pc' = "done"
    /\ settle' = NoSettle
    /\ UNCHANGED <<scan, wx, paper, now, state, pnl_file, cycle, kelly, daemon>>

\* execution.py:99-121: the breaker is closed; day rollover, then balance and
\* held events are fetched (paper_trading_safety.py:59-74 in paper mode)
ExecuteTradesBegin(bal, held, others) ==
    /\ pc = "settled"
    /\ breaker_closed(paper, pnl_file, state, now)
    /\ state' = rollover(state, now)
    /\ exec' = [NoExec EXCEPT
                  !.before = state,
                  !.balance = bal,
                  !.start_balance = bal,
                  !.open_tickers = held,
                  !.open_count = Cardinality(held) + others,
                  !.all_held = held \cup { state.positions[i].ticker :
                                             i \in 1..Len(state.positions) },
                  !.city_date_traded = initial_city_dates(state)]
    /\ pc' = "exec"
    /\ settle' = NoSettle
    /\ UNCHANGED <<scan, wx, paper, now, pnl_file, last_alert, alerts, cycle, kelly, daemon>>

\* kalshi_api.py:97: in live mode the positions request can raise; nothing
\* in execute_trades catches it
ExecuteTradesVenueError ==
    /\ pc = "settled"
    /\ ~paper
    /\ breaker_closed(paper, pnl_file, state, now)
    /\ state' = rollover(state, now)
    /\ exec' = [NoExec EXCEPT !.before = state, !.outcome = "raised"]
    /\ pc' = "done"
    /\ settle' = NoSettle
    /\ UNCHANGED <<scan, wx, paper, now, pnl_file, last_alert, alerts, cycle, kelly, daemon>>

\* execution.py:125-130: break
ExecuteLimitReached ==
    /\ pc = "exec"
    /\ exec.n < MaxOpps
    /\ limit_reached(state, exec)
    /\ exec' = Returned(exec)
    /\ pc' = "done"
    /\ UNCHANGED <<scan, wx, paper, now, state, pnl_file, last_alert, alerts, cycle, settle, kelly, daemon>>

\* execution.py:132-185: continue
ExecuteSkip(opp) ==
    /\ pc = "exec"
    /\ exec.n < MaxOpps
    /\ ~limit_reached(state, exec)
    /\ skip_reason(opp, state, exec) # "none"
    /\ exec' = [exec EXCEPT !.n = @ + 1, !.last_skip = skip_reason(opp, state, exec)]
    /\ UNCHANGED <<scan, wx, paper, now, state, pnl_file, last_alert, alerts, pc, cycle, settle, kelly, daemon>>

\* execution.py:187-216 with _execute_paper / _execute_live
ExecutePlace(opp, venue) ==
    /\ pc = "exec"
    /\ exec.n < MaxOpps
    /\ ~limit_reached(state, exec)
    /\ skip_reason(opp, state, exec) = "none"
    /\ venue \in (IF paper THEN {"order"} ELSE VenueResults)
    /\ LET count      == sized_count(opp, exec.balance)
           total_cost == count * opp.price
           record     == position_record(opp, count, now, paper)
           made       == execute_result(paper, venue)
           ordered    == paper \/ venue = "order"
       IN
       /\ state' = IF ordered
                   THEN [state EXCEPT !.daily_trades = @ + 1,
                                      !.positions = Append(@, record)]
                   ELSE state
       /\ exec' = [exec EXCEPT
                     !.n = @ + 1,
                     !.last_skip = "none",
                     !.trades_made = @ + made,
                     !.balance = @ - total_cost,
                     !.city_date_traded = IF ordered
                                          THEN @ \cup {<<opp.city, opp.target_date>>}
                                          ELSE @,
                     !.all_held = IF ordered THEN @ \cup {opp.ticker} ELSE @,
                     !.placed = IF ordered THEN Append(@, record) ELSE @,
                     !.sizing = IF ordered
                                THEN Append(@, [kelly |-> kelly_size(opp.model_fair, opp.price,
                                                                     exec.balance),
                                                balance |-> exec.balance])
                                ELSE @]
    /\ UNCHANGED <<scan, wx, paper, now, pnl_file, last_alert, alerts, pc, cycle, settle, kelly, daemon>>

\* execution.py:218: the list is exhausted
ExecuteTradesReturn ==
    /\ pc = "exec"
    /\ exec' = Returned(exec)
    /\ pc' = "done"
    /\ UNCHANGED <<scan, wx, paper, now, state, pnl_file, last_alert, alerts, cycle, settle, kelly, daemon>>

\* the scan found nothing: execute_trades is not called this cycle
NoOpportunities ==
    /\ pc = "settled"
    /\ pc' = "done"
    /\ settle' = NoSettle
    /\ UNCHANGED <<scan, wx, paper, now, state, pnl_file, last_alert, alerts, cycle, exec, kelly, daemon>>

\* the cycle ends; the next one starts after the poll interval
Sleep ==
    /\ pc = "done"
    /\ cycle < MaxCycles
    /\ now' = now + get_poll_interval(now)
    /\ cycle' = cycle + 1
    /\ pc' = "cycle"
    /\ settle' = NoSettle
    /\ exec' = NoExec
    /\ UNCHANGED <<scan, wx, paper, state, pnl_file, last_alert, alerts, kelly, daemon>>

-----------------------------------------------------------------------------
(* The settle / execute cycle *)

NoKelly  == [fair_cents |-> 0, price |-> 0, bankroll |-> 0, called |-> FALSE, out |-> 0]
\* kalshi_unified.main: position in the loop, the write in progress (file,
\* where control goes when it completes, where when it raises) and, per
\* file, how many chunks of its document are on disk
Files    == {"state", "pnl", "accuracy"}
NoWrite  == [file |-> "none", next |-> "none", fail |-> "none"]
\* further: the state document that the last completed save_state left on
\* disk, the tickers for which record_pnl has rewritten the ledger, in call
\* order, and the number of times the daemon was started again
NoDaemon == [pc |-> "off", w |-> NoWrite, disk |-> [f \in Files |-> DocChunks],
             saved |-> load_state_default, recorded |-> <<>>, restarts |-> 0]
\* kalshi.scanner.find_opportunities before it starts: nothing scanned, the
\* opportunities list empty, nothing returned
NoScan   == [scanned |-> <<>>, opportunities |-> <<>>, log |-> <<>>,
             returned |-> <<>>, done |-> FALSE,
             \* per city scanned so far: the markets of the venue's
             \* response and which of them _scan_market returned from
             responses |-> <<>>,
             \* the last fair_probability call: arguments and result
             fair_call |-> [called |-> FALSE, forecast_temp |-> 0, floor_strike |-> 0,
                            cap_strike |-> 0, days_ahead |-> 0, strike_type |-> "none",
                            out |-> 0]]
\* weather_providers.build_ensemble: the five providers in the order they
\* are added, with their base weights in tenths
Providers == <<"NOAA", "OpenMeteo_GFS", "OpenMeteo_ICON", "OpenMeteo_ECMWF", "OpenMeteo_GEM">>
ProviderNames == {Providers[i] : i \in 1..Len(Providers)}
NoEnsembleCall == [called |-> FALSE, returned |-> FALSE, city |-> "none",
                   stale |-> FALSE, forecasts |-> <<>>, adjusted |-> <<>>,
                   weights |-> <<>>, mean |-> [num |-> 0, den |-> 1],
                   rounding |-> 0, provider_count |-> 0]
\* accuracy_history, every sample ever held per provider in recording
\* order (history), the record_accuracy calls made, the last ensemble call
NoWx     == [accuracy_history |-> [p \in ProviderNames |-> <<>>],
             recorded |-> [p \in ProviderNames |-> <<>>],
             calls |-> 0, ens |-> NoEnsembleCall]

Init ==
    /\ paper \in BOOLEAN
    /\ now = StartTime
    /\ state \in {load_state_default, load_state_saved(paper, 1)}
    /\ pnl_file = load_pnl_default
    /\ last_alert = 0
    /\ alerts = <<>>
    /\ pc = "cycle"
    /\ cycle = 1
    /\ settle = NoSettle
    /\ exec = NoExec
    /\ kelly = NoKelly
    /\ daemon = NoDaemon
    /\ scan = NoScan
    /\ wx = NoWx

Next ==
    \/ CheckSettledBegin
    \/ \E a \in MarketAnswers : SettleKeep(a)
    \/ \E r \in MarketAnswers : SettleResolve(r)
    \/ \E r \in MarketAnswers : SettleResolveLedgerError(r)
    \/ CheckSettledReturn
    \/ ExecuteTradesTripped
    \/ \E bal \in get_balance(paper), v \in get_positions(paper) :
          ExecuteTradesBegin(bal, v.held, v.others)
    \/ ExecuteTradesVenueError
    \/ ExecuteLimitReached
    \/ \E opp \in Opportunities : ExecuteSkip(opp)
    \/ \E opp \in Opportunities, venue \in VenueResults : ExecutePlace(opp, venue)
    \/ ExecuteTradesReturn
    \/ NoOpportunities
    \/ Sleep

Spec == Init /\ [][Next]_vars

-----------------------------------------------------------------------------
(* Properties of the settle / execute cycle *)

\* C1: no two positions of state.positions share (city, target_date), and no
\* two orders placed by one execute_trades call share (city, target_date).
NoTwoPositionsShareCityDate ==
    /\ \A i, j \in 1..Len(state.positions) :
          i # j => <<state.positions[i].city, state.positions[i].target_date>>
                   # <<state.positions[j].city, state.positions[j].target_date>>
    /\ \A i, j \in 1..Len(exec.placed) :
          i # j => <<exec.placed[i].city, exec.placed[i].target_date>>
                   # <<exec.placed[j].city, exec.placed[j].target_date>>

\* a call placed an order and then refused another market of the same city
\* and date because of the position it had just appended
CityDateRefusedAfterPlacement ==
    /\ pc = "exec"
    /\ exec.last_skip = "city_date"
    /\ \E i \in 1..Len(exec.placed) : <<exec.placed[i].city, exec.placed[i].target_date>> = <<"HOU", 1>>
    /\ Len(exec.before.positions) = 0

\* C2: for every correlation group, the number of positions whose city maps
\* to the group never exceeds MAX_PER_GROUP.
GroupNeverExceedsCap ==
    \A c \in {m.city : m \in Markets} :
        Cardinality({ i \in 1..Len(state.positions) :
                        get_correlation_group(state.positions[i].city)
                            = get_correlation_group(c) }) <= MAX_PER_GROUP

\* a call refused an opportunity because its group was full
GroupRefusedAtCap ==
    /\ pc = "exec"
    /\ exec.last_skip = "group"
    /\ Cardinality({ i \in 1..Len(state.positions) :
                       get_correlation_group(state.positions[i].city) = "gulf_south" })
           = MAX_PER_GROUP

\* C3 as stated: when check_settled returns, the change of total_pnl_cents is
\* the sum of the settlement amounts of exactly the positions it removed; a
\* position that stays has contributed nothing.
TotalChangeIsSumOverRemoved ==
    pc = "settled" =>
        state.total_pnl_cents - settle.pnl_before
            = SumSeq([i \in 1..Len(settle.before) |->
                        IF settle.outcomes[i] \in {"yes", "no"}
                        THEN settlement_pnl(settle.before[i], settle.outcomes[i])
                        ELSE 0])

\* C4: when the breaker condition holds at the start of execute_trades, in
\* paper and in live mode, the call returns 0, places no order and leaves
\* positions, daily_trades and last_trade_date as they were.
TrippedCallChangesNothing ==
    /\ pc = "exec" => check_circuit_breaker(pnl_file, exec.before, now)
    /\ (pc = "done" /\ exec.outcome # "none"
          /\ ~check_circuit_breaker(pnl_file, exec.before, now))
       => /\ exec.outcome = "returned"
          /\ exec.ret = 0
          /\ exec.placed = <<>>
          /\ state.positions = exec.before.positions
          /\ state.daily_trades = exec.before.daily_trades
          /\ state.last_trade_date = exec.before.last_trade_date

\* a paper-mode call found the breaker open on a day for which the state
\* still carried the previous day's trade count
PaperCallTripped ==
    /\ pc = "done"
    /\ paper
    /\ exec.tripped
    /\ exec.before.last_trade_date # LocalDay(now)
    /\ Len(exec.before.positions) > 0

\* C5: after check_settled, state.positions is the subsequence, in the
\* original order, of the prior positions whose market had no result or whose
\* processing raised.
SettledKeepsUnresolvedInOrder ==
    pc = "settled" =>
        LET n == Len(settle.before)
            kept[k \in 0..n] ==
                IF k = 0 THEN <<>>
                ELSE IF settle.outcomes[k] \in {"open", "error"}
                     THEN Append(kept[k - 1], settle.before[k])
                     ELSE kept[k - 1]
        IN  /\ Len(settle.outcomes) = n
            /\ state.positions = kept[n]

\* one position raised and the other was settled, in either order
SettledAroundAnError ==
    /\ pc = "settled"
    /\ Len(settle.before) = 2
    /\ settle.outcomes[1] = "error"
    /\ settle.outcomes[2] \in {"yes", "no"}
    /\ Len(state.positions) = 1

\* C6: after a call with the breaker closed, daily_trades is its value before
\* the call (0 when last_trade_date was not the current local date) plus the
\* number of successful placements, which is also the value returned and the
\* number of positions appended.
DailyTradesCountsPlacements ==
    (pc = "done" /\ exec.outcome = "returned" /\ ~exec.tripped) =>
        LET base == IF exec.before.last_trade_date # LocalDay(now)
                    THEN 0 ELSE exec.before.daily_trades
        IN  /\ state.daily_trades = base + Len(exec.placed)
            /\ exec.ret = Len(exec.placed)
            /\ state.positions = exec.before.positions \o exec.placed
            /\ state.last_trade_date = LocalDay(now)

\* a live call on a new local day, with a count left over from the day
\* before, placed one order and had another one rejected by the venue
RolloverThenPlacementAndRejection ==
    /\ pc = "done"
    /\ ~paper
    /\ exec.outcome = "returned"
    /\ ~exec.tripped
    /\ exec.before.last_trade_date # LocalDay(now)
    /\ exec.before.daily_trades > 0
    /\ Len(exec.placed) = 1
    /\ state.daily_trades = 1

-----------------------------------------------------------------------------
(* The circuit-breaker alert throttle over a run of tripped calls *)

\* 20:00 local time of day 0 (02:00 UTC of day 1): both saved positions count
\* as traded today, so their exposure keeps the breaker open all evening
EveningStart == SECONDS_PER_DAY + 2 * 3600

\* seconds a cycle spends in its requests before it reaches execute_trades
CycleDurations == {0, 60, 120}

\* main sleeps get_poll_interval() seconds, nothing settles, and the next
\* cycle calls execute_trades again
PollAgain(duration) ==
    /\ pc = "done"
    /\ cycle < MaxCalls
    /\ now' = now + get_poll_interval(now) + duration
    /\ cycle' = cycle + 1
    /\ pc' = "settled"
    /\ exec' = NoExec
    /\ UNCHANGED <<scan, wx, paper, state, pnl_file, last_alert, alerts, settle, kelly, daemon>>

InitAlerts ==
    /\ paper \in BOOLEAN
    /\ now = EveningStart
    /\ state = load_state_saved(paper, 2)
    /\ pnl_file = load_pnl_default
    /\ last_alert = 0
    /\ alerts = <<>>
    /\ pc = "settled"
    /\ cycle = 1
    /\ settle = NoSettle
    /\ exec = NoExec
    /\ kelly = NoKelly
    /\ daemon = NoDaemon
    /\ scan = NoScan
    /\ wx = NoWx

NextAlerts ==
    \/ ExecuteTradesTripped
    \/ \E duration \in CycleDurations : PollAgain(duration)

SpecAlerts == InitAlerts /\ [][NextAlerts]_vars

\* C9: any two circuit-breaker alerts are at least
\* CIRCUIT_BREAKER_ALERT_INTERVAL seconds apart, and every tripped call
\* returns 0 whether it alerted or not.
AlertsAtLeastAnIntervalApart ==
    /\ \A i, j \in 1..Len(alerts) :
          i < j => alerts[j] - alerts[i] >= CIRCUIT_BREAKER_ALERT_INTERVAL
    /\ (pc = "done" /\ exec.tripped) => (exec.outcome = "returned" /\ exec.ret = 0)

\* two alerts were sent, a later tripped call was throttled, and one tripped
\* call between the two alerts was throttled as well
SecondAlertThenThrottled ==
    /\ pc = "done"
    /\ exec.tripped
    /\ Len(alerts) = 2
    /\ now > alerts[2]
    /\ now - alerts[2] < CIRCUIT_BREAKER_ALERT_INTERVAL
    /\ alerts[2] - alerts[1] = CIRCUIT_BREAKER_ALERT_INTERVAL

-----------------------------------------------------------------------------
(* kelly_size as a function of its arguments *)

\* fair value (cents, model_fair of execution.py:169) and price (cents)
KellyPairs ==
    { <<0, 40>>, <<30, 40>>, <<40, 40>>, <<60, 40>>, <<70, 70>>, <<90, 70>>,
      <<10, 10>>, <<18, 10>>, <<100, 40>>, <<100, 75>> }
KellyBankrolls == {0, 450, 480, 520, 900, 960, 3840, 4000, PAPER_BALANCE}

KellyCall ==
    /\ ~kelly.called
    /\ kelly' = [kelly EXCEPT
                   !.called = TRUE,
                   !.out = kelly_size(kelly.fair_cents, kelly.price, kelly.bankroll)]
    /\ UNCHANGED <<scan, wx, paper, now, state, pnl_file, last_alert, alerts, pc, cycle, settle,
                   exec, daemon>>

InitKelly ==
    /\ paper = TRUE
    /\ now = StartTime
    /\ state = load_state_default
    /\ pnl_file = load_pnl_default
    /\ last_alert = 0
    /\ alerts = <<>>
    /\ pc = "kelly"
    /\ cycle = 1
    /\ settle = NoSettle
    /\ exec = NoExec
    /\ \E pr \in KellyPairs, B \in KellyBankrolls :
          kelly = [NoKelly EXCEPT !.fair_cents = pr[1], !.price = pr[2], !.bankroll = B]
    /\ daemon = NoDaemon
    /\ scan = NoScan
    /\ wx = NoWx

NextKelly == KellyCall

SpecKelly == InitKelly /\ [][NextKelly]_vars

\* C10 as stated: for 0 <= p <= 1, 0 < c < 100 and B >= 0 the result is
\* clamp(floor(B * f_safe / c), 0, MAX_CONTRACTS) with b = (100 - c) / c,
\* f* = (p b - (1 - p)) / b and f_safe = max(0, f* / 4); with p = P / 100
\* the quotient B f_safe / c is B (P - c) / (4 (100 - c) c) when P > c and 0
\* otherwise.  In particular the result is 0 when p <= c / 100.
KellyIsClampedFloor ==
    kelly.called =>
        LET P == kelly.fair_cents
            c == kelly.price
            B == kelly.bankroll
            floor_q == IF P > c THEN (B * (P - c)) \div (4 * (100 - c) * c) ELSE 0
        IN  /\ kelly.out = Max(0, Min(floor_q, MAX_CONTRACTS))
            /\ P <= c => kelly.out = 0

-----------------------------------------------------------------------------
(* kalshi_unified.main and the whole-file JSON writers *)

\* with open(path, 'w') as f: json.dump(doc, f) -- entered from main or from
\* check_settled; `next` is the step after the call, `fail` the step that
\* receives an exception raised by it
BeginWrite(file, next, fail) ==
    [daemon EXCEPT !.pc = "open", !.w = [file |-> file, next |-> next, fail |-> fail]]

\* save_state's callers in main: inside the try the exception goes to the
\* except clause; the paper-balance save after the try has no handler
save_state_in_try(next)   == BeginWrite("state", next, "except")
save_state_after_try      == BeginWrite("state", "sleep", "crashed")

\* open(path, 'w') truncates the file
WriteOpen ==
    /\ daemon.pc = "open"
    /\ daemon' = [daemon EXCEPT !.pc = "dump", !.disk[daemon.w.file] = 0]
    /\ UNCHANGED <<scan, wx, paper, now, state, pnl_file, last_alert, alerts, pc, cycle, settle,
                   exec, kelly>>

\* json.dump writes the document piece by piece
WriteChunk ==
    /\ daemon.pc = "dump"
    /\ daemon.disk[daemon.w.file] < DocChunks
    /\ daemon' = [daemon EXCEPT !.disk[daemon.w.file] = @ + 1]
    /\ UNCHANGED <<scan, wx, paper, now, state, pnl_file, last_alert, alerts, pc, cycle, settle,
                   exec, kelly>>

\* the with block is left normally
WriteClose ==
    /\ daemon.pc = "dump"
    /\ daemon.disk[daemon.w.file] = DocChunks
    /\ daemon' = [daemon EXCEPT !.pc = daemon.w.next, !.w = NoWrite]
    /\ UNCHANGED <<scan, wx, paper, now, state, pnl_file, last_alert, alerts, pc, cycle, settle,
                   exec, kelly>>

\* open or write raises (permissions, disk full, a value json cannot encode)
WriteRaises ==
    /\ daemon.pc \in {"open", "dump"}
    /\ daemon.pc = "dump" => daemon.disk[daemon.w.file] < DocChunks
    /\ daemon' = [daemon EXCEPT !.pc = daemon.w.fail, !.w = NoWrite]
    /\ UNCHANGED <<scan, wx, paper, now, state, pnl_file, last_alert, alerts, pc, cycle, settle,
                   exec, kelly>>

\* check_settled(state): nothing settles or the venue request raises (the
\* position is kept), or a position settles and record_accuracy rewrites the
\* accuracy history; save_accuracy_history swallows its own exceptions
MainCheckSettled(settles) ==
    /\ daemon.pc = "check_settled"
    /\ daemon' = IF settles
                 THEN BeginWrite("accuracy", "record_pnl", "record_pnl")
                 ELSE [daemon EXCEPT !.pc = "save_state_1"]
    /\ UNCHANGED <<scan, wx, paper, now, state, pnl_file, last_alert, alerts, pc, cycle, settle,
                   exec, kelly>>

\* record_pnl -> save_pnl; an exception is caught by check_settled's handler
\* for the position, and check_settled returns
MainRecordPnl ==
    /\ daemon.pc = "record_pnl"
    /\ daemon' = BeginWrite("pnl", "save_state_1", "save_state_1")
    /\ UNCHANGED <<scan, wx, paper, now, state, pnl_file, last_alert, alerts, pc, cycle, settle,
                   exec, kelly>>

\* kalshi_unified.py:1638
MainSaveStateAfterSettle ==
    /\ daemon.pc = "save_state_1"
    /\ daemon' = save_state_in_try("find_opportunities")
    /\ UNCHANGED <<scan, wx, paper, now, state, pnl_file, last_alert, alerts, pc, cycle, settle,
                   exec, kelly>>

\* kalshi_unified.py:1640-1647: the scan raises, finds nothing, or finds
\* opportunities and execute_trades returns or raises
MainScanAndExecute(outcome) ==
    /\ daemon.pc = "find_opportunities"
    /\ outcome \in {"raise", "none", "executed"}
    /\ daemon' = [daemon EXCEPT !.pc = IF outcome = "raise" THEN "except"
                                       ELSE "save_state_2"]
    /\ UNCHANGED <<scan, wx, paper, now, state, pnl_file, last_alert, alerts, pc, cycle, settle,
                   exec, kelly>>

\* kalshi_unified.py:1649
MainSaveStateAfterExecute ==
    /\ daemon.pc = "save_state_2"
    /\ daemon' = save_state_in_try("after_try")
    /\ UNCHANGED <<scan, wx, paper, now, state, pnl_file, last_alert, alerts, pc, cycle, settle,
                   exec, kelly>>

\* kalshi_unified.py:1650-1652: log the error and go on
MainExcept ==
    /\ daemon.pc = "except"
    /\ daemon' = [daemon EXCEPT !.pc = "after_try"]
    /\ UNCHANGED <<scan, wx, paper, now, state, pnl_file, last_alert, alerts, pc, cycle, settle,
                   exec, kelly>>

\* kalshi_unified.py:1654-1657: in paper mode the state is saved once more,
\* outside the try
MainPaperSave ==
    /\ daemon.pc = "after_try"
    /\ daemon' = IF paper THEN save_state_after_try
                          ELSE [daemon EXCEPT !.pc = "sleep"]
    /\ UNCHANGED <<scan, wx, paper, now, state, pnl_file, last_alert, alerts, pc, cycle, settle,
                   exec, kelly>>

\* kalshi_unified.py:1659-1661, then the next iteration of while True
MainSleep ==
    /\ daemon.pc = "sleep"
    /\ cycle < MaxCycles
    /\ now' = now + get_poll_interval(now)
    /\ cycle' = cycle + 1
    /\ daemon' = [daemon EXCEPT !.pc = "check_settled"]
    /\ UNCHANGED <<scan, wx, paper, state, pnl_file, last_alert, alerts, pc, settle, exec, kelly>>

\* the process is stopped from outside (signal, power loss) at any point
ProcessStops ==
    /\ daemon.pc \notin {"crashed", "stopped"}
    /\ daemon' = [daemon EXCEPT !.pc = "stopped"]
    /\ UNCHANGED <<scan, wx, paper, now, state, pnl_file, last_alert, alerts, pc, cycle, settle,
                   exec, kelly>>

InitDaemon ==
    /\ paper \in BOOLEAN
    /\ now = StartTime
    /\ state = load_state_default
    /\ pnl_file = load_pnl_default
    /\ last_alert = 0
    /\ alerts = <<>>
    /\ pc = "main"
    /\ cycle = 1
    /\ settle = NoSettle
    /\ exec = NoExec
    /\ kelly = NoKelly
    /\ daemon = [NoDaemon EXCEPT !.pc = "check_settled"]
    /\ scan = NoScan
    /\ wx = NoWx

NextDaemon ==
    \/ \E settles \in BOOLEAN : MainCheckSettled(settles)
    \/ MainRecordPnl
    \/ MainSaveStateAfterSettle
    \/ \E outcome \in {"raise", "none", "executed"} : MainScanAndExecute(outcome)
    \/ MainSaveStateAfterExecute
    \/ MainExcept
    \/ MainPaperSave
    \/ MainSleep
    \/ WriteOpen
    \/ WriteChunk
    \/ WriteClose
    \/ WriteRaises
    \/ ProcessStops

SpecDaemon == InitDaemon /\ [][NextDaemon]_vars

\* C7 as stated: whenever the process stops, each persistent file holds a
\* complete document -- the previous one or the new one -- never an empty or
\* partial one.
FilesCompleteWhenStopped ==
    daemon.pc = "stopped" => \A f \in Files : daemon.disk[f] = DocChunks

\* C8 as stated: no failure raised during a cycle terminates the daemon, in
\* paper and in live mode.
NoFailureTerminatesDaemon ==
    daemon.pc # "crashed"

-----------------------------------------------------------------------------
(* Sizing and affordability of the orders of one execute_trades call *)

\* C11: every position appended by execute_trades has 1 <= count <=
\* MAX_CONTRACTS and count * price <= MAX_COST_PER_TRADE; when the Kelly count
\* would cost more than the cap the count placed is exactly
\* MAX_COST_PER_TRADE \div price, otherwise it is the Kelly count; an order of
\* less than one contract is never placed.
PlacedCountsRespectCaps ==
    \A i \in 1..Len(exec.placed) :
        LET p == exec.placed[i]
            k == exec.sizing[i].kelly
        IN  /\ 1 <= p.count
            /\ p.count <= MAX_CONTRACTS
            /\ p.count * p.price <= MAX_COST_PER_TRADE
            /\ p.count = IF k * p.price > MAX_COST_PER_TRADE
                         THEN MAX_COST_PER_TRADE \div p.price
                         ELSE k

\* an order whose Kelly count of 8 at 70 cents would cost 560 was placed
\* with 7 contracts
KellyCountCutByCostCap ==
    \E i \in 1..Len(exec.placed) :
        /\ exec.sizing[i].kelly * exec.placed[i].price > MAX_COST_PER_TRADE
        /\ exec.placed[i].count = MAX_COST_PER_TRADE \div exec.placed[i].price
        /\ exec.placed[i].count < exec.sizing[i].kelly

\* C12: within one call every order placed costs at most the working balance
\* at that moment minus 500 cents, the working balance never drops below 500,
\* and the orders placed cost together at most the balance fetched at the
\* start minus 500.
OrdersLeaveTheBuffer ==
    LET cost(i) == exec.placed[i].count * exec.placed[i].price
        spent   == SumSeq([i \in 1..Len(exec.placed) |-> cost(i)])
    IN  /\ \A i \in 1..Len(exec.placed) : cost(i) <= exec.sizing[i].balance - AFFORD_BUFFER
        /\ Len(exec.placed) > 0 => spent <= exec.start_balance - AFFORD_BUFFER
        /\ pc = "exec" =>
              /\ exec.balance <= exec.start_balance - spent
              /\ exec.balance < exec.start_balance => exec.balance >= AFFORD_BUFFER

\* a live call that started with 560 cents placed one contract at 40 cents
\* and then refused the next order, which 520 cents could not afford
RefusedForTheBuffer ==
    /\ pc = "exec"
    /\ ~paper
    /\ Len(exec.placed) = 1
    /\ exec.balance = exec.start_balance - exec.placed[1].count * exec.placed[1].price
    /\ exec.last_skip = "afford"

-----------------------------------------------------------------------------
(* kalshi.scanner: one scan of find_opportunities (SpecScanner)             *)
(*                                                                         *)
(* Prices and fair values are integer cents, probabilities and confidence  *)
(* are percent, temperatures and strikes are tenths of a degree (the       *)
(* inputs are multiples of half a degree, which doubles hold exactly).     *)
(* raw_edge is in half cents, adjusted_edge = raw_edge * confidence is in  *)
(* EDGE_UNIT-ths of a cent.                                                *)

MaxMarkets == 3

MIN_VOLUME     == 10
MAX_EDGE_CENTS == 60
MAX_SPREAD     == 30
MIN_EDGE_CENTS(is_paper)         == IF is_paper THEN 10 ELSE 15
MIN_YES_PRICE(is_paper)          == IF is_paper THEN 5 ELSE 15
MIN_NO_PRICE(is_paper)           == IF is_paper THEN 5 ELSE 15
MAX_DISAGREEMENT_CENTS(is_paper) == IF is_paper THEN 40 ELSE 25
\* in tenths: 3.5 paper, 3.0 live
MAX_FAIR_MARKET_RATIO(is_paper)  == IF is_paper THEN 35 ELSE 30
\* in tenths of a degree: 0.2 paper, 1.5 live
proximity_threshold(is_paper)    == IF is_paper THEN 2 ELSE 15
EDGE_UNIT == 200
\* a strike the market does not have (None)
NoStrike == 0 - 1

Abs(x) == IF x < 0 THEN 0 - x ELSE x

\* The markets a scan can meet: quotes in cents as the venue reports them
\* (a bid above the ask is not rejected by the scanner), the event's
\* forecast and confidence, and fair_probability's answer for the market.
ScanMarkets ==
    { [ticker |-> "HOU-T60", yes_ask |-> 25, yes_bid |-> 24, volume |-> 100,
       floor_strike |-> 600, cap_strike |-> NoStrike, forecast_temp |-> 700,
       fair_p |-> 64, confidence |-> 100],
      [ticker |-> "HOU-T61", yes_ask |-> 24, yes_bid |-> 22, volume |-> 100,
       floor_strike |-> 600, cap_strike |-> NoStrike, forecast_temp |-> 700,
       fair_p |-> 64, confidence |-> 100],
      [ticker |-> "DAL-T60", yes_ask |-> 24, yes_bid |-> 23, volume |-> 100,
       floor_strike |-> 600, cap_strike |-> NoStrike, forecast_temp |-> 700,
       fair_p |-> 64, confidence |-> 100],
      [ticker |-> "DAL-T61", yes_ask |-> 31, yes_bid |-> 29, volume |-> 100,
       floor_strike |-> 600, cap_strike |-> NoStrike, forecast_temp |-> 700,
       fair_p |-> 5, confidence |-> 100],
      [ticker |-> "NOLA-T60", yes_ask |-> 20, yes_bid |-> 18, volume |-> 100,
       floor_strike |-> 600, cap_strike |-> NoStrike, forecast_temp |-> 700,
       fair_p |-> 90, confidence |-> 100],
      [ticker |-> "NOLA-T61", yes_ask |-> 4, yes_bid |-> 3, volume |-> 100,
       floor_strike |-> 600, cap_strike |-> NoStrike, forecast_temp |-> 700,
       fair_p |-> 10, confidence |-> 100],
      [ticker |-> "MIA-T60", yes_ask |-> 10, yes_bid |-> 8, volume |-> 100,
       floor_strike |-> 600, cap_strike |-> NoStrike, forecast_temp |-> 700,
       fair_p |-> 10, confidence |-> 100],
      [ticker |-> "MIA-T61", yes_ask |-> 4, yes_bid |-> 60, volume |-> 100,
       floor_strike |-> 600, cap_strike |-> NoStrike, forecast_temp |-> 700,
       fair_p |-> 30, confidence |-> 70],
      [ticker |-> "PHX-T60", yes_ask |-> 19, yes_bid |-> 18, volume |-> 100,
       floor_strike |-> 600, cap_strike |-> NoStrike, forecast_temp |-> 700,
       fair_p |-> 58, confidence |-> 100],
      [ticker |-> "ATL-T70", yes_ask |-> 25, yes_bid |-> 24, volume |-> 100,
       floor_strike |-> 700, cap_strike |-> NoStrike, forecast_temp |-> 715,
       fair_p |-> 64, confidence |-> 100],
      [ticker |-> "ATL-T71", yes_ask |-> 25, yes_bid |-> 24, volume |-> 100,
       floor_strike |-> 700, cap_strike |-> NoStrike, forecast_temp |-> 700,
       fair_p |-> 64, confidence |-> 100],
      [ticker |-> "ATL-B70", yes_ask |-> 25, yes_bid |-> 24, volume |-> 100,
       floor_strike |-> 700, cap_strike |-> 720, forecast_temp |-> 710,
       fair_p |-> 64, confidence |-> 100],
      [ticker |-> "CHI-T60", yes_ask |-> 25, yes_bid |-> 24, volume |-> 5,
       floor_strike |-> 600, cap_strike |-> NoStrike, forecast_temp |-> 700,
       fair_p |-> 64, confidence |-> 100],
      [ticker |-> "CHI-T61", yes_ask |-> 60, yes_bid |-> 20, volume |-> 100,
       floor_strike |-> 600, cap_strike |-> NoStrike, forecast_temp |-> 700,
       fair_p |-> 50, confidence |-> 100],
      [ticker |-> "PHX-T61", yes_ask |-> 15, yes_bid |-> 39, volume |-> 100,
       floor_strike |-> 600, cap_strike |-> NoStrike, forecast_temp |-> 700,
       fair_p |-> 25, confidence |-> 100],
      [ticker |-> "SEA-T60", yes_ask |-> 31, yes_bid |-> 29, volume |-> 100,
       floor_strike |-> 600, cap_strike |-> NoStrike, forecast_temp |-> 700,
       fair_p |-> 25, confidence |-> 70] }

\* round(market_adjusted_fair(model_p, market_p, MODEL_WEIGHT) * 100) as the
\* double arithmetic of the log-odds blend gives it, for the pairs
\* <<model_p in percent, market_p in cents>> the markets above present
BlendTable ==
    { <<5, 29, 18>>, <<5, 31, 19>>, <<10, 3, 4>>, <<10, 4, 5>>, <<10, 8, 9>>,
      <<10, 10, 10>>, <<25, 15, 18>>, <<25, 29, 28>>, <<25, 31, 29>>, <<25, 39, 34>>,
      <<30, 4, 8>>, <<30, 60, 51>>, <<50, 20, 27>>, <<50, 60, 57>>, <<58, 18, 28>>,
      <<58, 19, 29>>, <<64, 22, 33>>, <<64, 23, 34>>, <<64, 24, 35>>, <<64, 25, 36>>,
      <<90, 18, 40>>, <<90, 20, 42>> }
market_adjusted_fair(model_p, market_p) ==
    (CHOOSE t \in BlendTable : t[1] = model_p /\ t[2] = market_p)[3]

\* scanner._bt: one backtest entry (side "none" for a market-level skip)
\* _bt(...): an entry written before an edge was computed (raw_edge and
\* adjusted_edge are None), and one written after; edges in half cents and
\* in half cents times the confidence in percent
bt(side, action, reason) ==
    [side |-> side, action |-> action, skip_reason |-> reason,
     has_edge |-> FALSE, raw_edge |-> 0, adjusted_edge |-> 0]
bt_edge(side, action, reason, raw_edge, adjusted_edge) ==
    [side |-> side, action |-> action, skip_reason |-> reason,
     has_edge |-> TRUE, raw_edge |-> raw_edge, adjusted_edge |-> adjusted_edge]
NoOpp ==
    [ticker |-> "none", side |-> "none", price |-> 0, fair |-> 0, model_fair |-> 0,
     raw_edge |-> 0, adjusted_edge |-> 0, confidence |-> 0]
\* what an evaluator hands back: None ("none"), the "skip_contract"
\* sentinel, or an opportunity ("opp"), with the entries it wrote
Evaluated(kind, records, opp) == [kind |-> kind, records |-> records, opp |-> opp]

\* (yes_ask - yes_bid) / 2, in half cents
half_spread(m) ==
    IF m.yes_ask > 0 /\ m.yes_bid > 0 THEN m.yes_ask - m.yes_bid ELSE 0

yes_price_floor_skips_contract == "skip_contract"
\* _evaluate_yes_side below MIN_YES_PRICE: return None
yes_price_floor_result == "none"

below_edge_floor_one_cent_lower(adjusted_edge, is_paper) ==
    adjusted_edge < (MIN_EDGE_CENTS(is_paper) - 1) * EDGE_UNIT
below_edge_floor(adjusted_edge, is_paper) ==
    adjusted_edge < MIN_EDGE_CENTS(is_paper) * EDGE_UNIT

above_edge_cap(adjusted_edge) == adjusted_edge > MAX_EDGE_CENTS * EDGE_UNIT

evaluate_yes_side(m, is_paper) ==
    LET model_fair_cents == m.fair_p
        fair_cents    == market_adjusted_fair(m.fair_p, m.yes_ask)
        raw_edge      == 2 * (fair_cents - m.yes_ask) - half_spread(m)
        adjusted_edge == raw_edge * m.confidence
        skip(kind, reason) == Evaluated(kind, <<bt("yes", "skip", reason)>>, NoOpp)
        skip_edge(reason)  == Evaluated("none", <<bt_edge("yes", "skip", reason,
                                                          raw_edge, adjusted_edge)>>, NoOpp)
    IN  IF m.yes_ask <= 0 \/ m.yes_ask >= 95
        THEN Evaluated("none", <<>>, NoOpp)
        ELSE IF m.yes_ask < MIN_YES_PRICE(is_paper)
        THEN skip(yes_price_floor_result, "yes_price_floor")
        ELSE IF Abs(model_fair_cents - m.yes_ask) > MAX_DISAGREEMENT_CENTS(is_paper)
        THEN skip("skip_contract", "model_disagreement")
        ELSE IF Abs(fair_cents - m.yes_ask) > MAX_DISAGREEMENT_CENTS(is_paper)
        THEN skip("skip_contract", "disagreement")
        ELSE IF 10 * fair_cents > MAX_FAIR_MARKET_RATIO(is_paper) * m.yes_ask
        THEN skip("skip_contract", "ratio")
        ELSE IF below_edge_floor(adjusted_edge, is_paper)
        THEN skip_edge("edge_low")
        ELSE IF above_edge_cap(adjusted_edge)
        THEN skip_edge("edge_cap")
        ELSE Evaluated("opp", <<bt_edge("yes", "trade", "none", raw_edge, adjusted_edge)>>,
                       [ticker |-> m.ticker, side |-> "yes", price |-> m.yes_ask,
                        fair |-> fair_cents, model_fair |-> model_fair_cents,
                        raw_edge |-> raw_edge, adjusted_edge |-> adjusted_edge,
                        confidence |-> m.confidence])

evaluate_no_side(m, is_paper) ==
    LET model_fair_cents == m.fair_p
        no_price       == 100 - m.yes_bid
        model_fair_no  == 100 - model_fair_cents
        fair_cents_yes == market_adjusted_fair(m.fair_p, m.yes_bid)
        fair_cents_no  == 100 - fair_cents_yes
        raw_edge       == 2 * (m.yes_bid - fair_cents_yes) - half_spread(m)
        adjusted_edge  == raw_edge * m.confidence
        skip(reason)   == Evaluated("none", <<bt("no", "skip", reason)>>, NoOpp)
        skip_edge(reason) == Evaluated("none", <<bt_edge("no", "skip", reason,
                                                         raw_edge, adjusted_edge)>>, NoOpp)
    IN  IF m.yes_bid <= 0 \/ m.yes_bid <= 5
        THEN Evaluated("none", <<>>, NoOpp)
        ELSE IF no_price < MIN_NO_PRICE(is_paper)
        THEN skip("no_price_floor")
        ELSE IF Abs(model_fair_no - no_price) > MAX_DISAGREEMENT_CENTS(is_paper)
        THEN skip("model_disagreement")
        ELSE IF Abs(fair_cents_no - no_price) > MAX_DISAGREEMENT_CENTS(is_paper)
        THEN skip("disagreement")
        ELSE IF no_price > 0 /\ 10 * fair_cents_no > MAX_FAIR_MARKET_RATIO(is_paper) * no_price
        THEN skip("ratio")
        ELSE IF below_edge_floor(adjusted_edge, is_paper)
        THEN skip_edge("edge_low")
        ELSE IF above_edge_cap(adjusted_edge)
        THEN skip_edge("edge_cap")
        ELSE Evaluated("opp", <<bt_edge("no", "trade", "none", raw_edge, adjusted_edge)>>,
                       [ticker |-> m.ticker, side |-> "no", price |-> no_price,
                        fair |-> fair_cents_no, model_fair |-> 100 - model_fair_cents,
                        raw_edge |-> raw_edge, adjusted_edge |-> adjusted_edge,
                        confidence |-> m.confidence])

\* what _scan_market did with one market: the entries it wrote, the
\* opportunities it appended, the YES result and whether the NO side ran
Scanned(records, emitted, yes_kind, no_evaluated) ==
    [records |-> records, emitted |-> emitted, yes_kind |-> yes_kind,
     no_evaluated |-> no_evaluated]

strike_distance(m) ==
    IF m.floor_strike # NoStrike /\ m.cap_strike # NoStrike
    THEN Min(Abs(m.forecast_temp - m.floor_strike), Abs(m.forecast_temp - m.cap_strike))
    ELSE IF m.cap_strike # NoStrike THEN Abs(m.forecast_temp - m.cap_strike)
    ELSE Abs(m.forecast_temp - m.floor_strike)

scan_market(m, is_paper) ==
    LET spread     == IF m.yes_ask > 0 /\ m.yes_bid > 0 THEN m.yes_ask - m.yes_bid ELSE 0
        yes_result == evaluate_yes_side(m, is_paper)
        no_result  == evaluate_no_side(m, is_paper)
        run_no     == yes_result.kind # "skip_contract"
        given(r)   == IF r.kind = "opp" THEN <<r.opp>> ELSE <<>>
    IN  IF m.floor_strike = NoStrike /\ m.cap_strike = NoStrike
        THEN Scanned(<<>>, <<>>, "unevaluated", FALSE)
        ELSE IF (m.yes_ask = 0 /\ m.yes_bid = 0) \/ m.volume < MIN_VOLUME
        THEN Scanned(<<>>, <<>>, "unevaluated", FALSE)
        ELSE IF spread > MAX_SPREAD
        THEN Scanned(<<bt("none", "skip", "spread")>>, <<>>, "unevaluated", FALSE)
        ELSE IF strike_distance(m) < proximity_threshold(is_paper)
        THEN Scanned(<<bt("none", "skip", "strike_proximity")>>, <<>>,
                     "unevaluated", FALSE)
        ELSE Scanned(yes_result.records \o (IF run_no THEN no_result.records ELSE <<>>),
                     given(yes_result) \o (IF run_no THEN given(no_result) ELSE <<>>),
                     yes_result.kind, run_no)

\* opportunities.sort(key=adjusted_edge, reverse=True): where the next
\* opportunity goes in the part already sorted. The list sort is stable,
\* so it goes behind every opportunity whose edge is at least its own.
insert_position_before_ties(opp, sorted) ==
    Cardinality({i \in 1..Len(sorted) : sorted[i].adjusted_edge > opp.adjusted_edge})
insert_position(opp, sorted) ==
    Cardinality({i \in 1..Len(sorted) : sorted[i].adjusted_edge >= opp.adjusted_edge})

RECURSIVE sort_by_adjusted_edge(_)
sort_by_adjusted_edge(opps) ==
    IF opps = <<>> THEN <<>>
    ELSE LET sorted == sort_by_adjusted_edge(SubSeq(opps, 1, Len(opps) - 1))
             opp    == opps[Len(opps)]
             at     == insert_position(opp, sorted)
         IN  SubSeq(sorted, 1, at) \o <<opp>> \o SubSeq(sorted, at + 1, Len(sorted))

\* _scan_event's loop body: the next market of the scan goes through
\* _scan_market (a ticker is listed once in a scan)
ScanMarket(m) ==
    /\ ~scan.done
    /\ Len(scan.scanned) < MaxMarkets
    /\ \A i \in 1..Len(scan.scanned) : scan.scanned[i] # m.ticker
    /\ LET r == scan_market(m, paper)
       IN  scan' = [scan EXCEPT
                      !.scanned = Append(@, m.ticker),
                      !.opportunities = @ \o r.emitted,
                      !.log = Append(@, [market |-> m, records |-> r.records,
                                         emitted |-> r.emitted, yes_kind |-> r.yes_kind,
                                         no_evaluated |-> r.no_evaluated])]
    /\ UNCHANGED <<wx, paper, now, state, pnl_file, last_alert, alerts, pc, cycle, settle,
                   exec, kelly, daemon>>

\* find_opportunities: every city scanned, sort and return
FindOpportunitiesReturn ==
    /\ ~scan.done
    /\ scan' = [scan EXCEPT !.returned = sort_by_adjusted_edge(scan.opportunities),
                            !.done = TRUE]
    /\ UNCHANGED <<wx, paper, now, state, pnl_file, last_alert, alerts, pc, cycle, settle,
                   exec, kelly, daemon>>

InitScanner ==
    /\ paper \in BOOLEAN
    /\ now = StartTime
    /\ state = load_state_default
    /\ pnl_file = load_pnl_default
    /\ last_alert = 0
    /\ alerts = <<>>
    /\ pc = "scan"
    /\ cycle = 1
    /\ settle = NoSettle
    /\ exec = NoExec
    /\ kelly = NoKelly
    /\ daemon = NoDaemon
    /\ scan = NoScan
    /\ wx = NoWx

NextScanner ==
    \/ \E m \in ScanMarkets : ScanMarket(m)
    \/ FindOpportunitiesReturn

SpecScanner == InitScanner /\ [][NextScanner]_vars

\* the entries of one scanned market with a given skip reason
SkipsFor(entry, reason) ==
    {j \in 1..Len(entry.records) : entry.records[j].skip_reason = reason}
\* the market got as far as the YES / NO evaluators
ReachedEvaluators(entry) ==
    /\ entry.yes_kind # "unevaluated"

\* C13: a market on which either evaluator wrote a model-disagreement,
\* blended-disagreement or ratio skip gives no opportunity on either side.
DisagreementDropsWholeContract ==
    \A i \in 1..Len(scan.log) :
        (\E reason \in {"model_disagreement", "disagreement", "ratio"} :
            SkipsFor(scan.log[i], reason) # {})
        => scan.log[i].emitted = <<>>

\* C14: a market whose yes_ask is positive but below MIN_YES_PRICE gets
\* exactly one YES entry, the yes_price_floor skip, and its NO side is
\* evaluated in the same pass: what the market emits and writes for the NO
\* side is what _evaluate_no_side gives for it.
YesPriceFloorFallsThroughToNo ==
    \A i \in 1..Len(scan.log) :
        LET e  == scan.log[i]
            m  == e.market
            no == evaluate_no_side(m, paper)
            IsNo(r) == r.side = "no"
            yes_entries == {j \in 1..Len(e.records) : e.records[j].side = "yes"}
        IN  (ReachedEvaluators(e) /\ 0 < m.yes_ask /\ m.yes_ask < MIN_YES_PRICE(paper))
            => /\ Cardinality(yes_entries) = 1
               /\ \A j \in yes_entries : /\ e.records[j].action = "skip"
                                         /\ e.records[j].skip_reason = "yes_price_floor"
               /\ e.no_evaluated
               /\ SelectSeq(e.records, IsNo) = no.records
               /\ e.emitted = IF no.kind = "opp" THEN <<no.opp>> ELSE <<>>

NoOpportunityAfterYesPriceFloor ==
    \E i \in 1..Len(scan.log) :
        /\ SkipsFor(scan.log[i], "yes_price_floor") # {}
        /\ Len(scan.log[i].emitted) = 1
        /\ scan.log[i].emitted[1].side = "no"
        /\ scan.log[i].emitted[1].ticker = scan.log[i].market.ticker

\* the market got past the volume and spread checks to the proximity filter
ReachedProximityFilter(e) ==
    /\ ~((e.market.yes_ask = 0 /\ e.market.yes_bid = 0) \/ e.market.volume < MIN_VOLUME)
    /\ SkipsFor(e, "spread") = {}

\* C15: a market whose distance from the forecast to the nearer strike is
\* at most the threshold gives no opportunity and one strike_proximity
\* skip; only a market strictly farther away passes the filter.
ProximityRejectsAtOrBelowThreshold ==
    \A i \in 1..Len(scan.log) :
        LET e == scan.log[i]
        IN  ReachedProximityFilter(e)
            => IF strike_distance(e.market) <= proximity_threshold(paper)
               THEN /\ e.emitted = <<>>
                    /\ Cardinality(SkipsFor(e, "strike_proximity")) = 1
               ELSE SkipsFor(e, "strike_proximity") = {}

\* C16: the returned list holds every opportunity the scan emitted exactly
\* once, in non-increasing adjusted_edge, equal edges in emission order.
ReturnedIsStableSortOfEmitted ==
    scan.done =>
        LET out == scan.returned
            em  == scan.opportunities
            pos(o) == CHOOSE k \in 1..Len(em) : em[k] = o
        IN  /\ Len(em) = SumSeq([i \in 1..Len(scan.log) |-> Len(scan.log[i].emitted)])
            /\ \A i \in 1..Len(scan.log) : \A k \in 1..Len(scan.log[i].emitted) :
                   Cardinality({j \in 1..Len(out) : out[j] = scan.log[i].emitted[k]}) = 1
            /\ Len(out) = Len(em)
            /\ \A j \in 1..(Len(out) - 1) :
                   out[j].adjusted_edge >= out[j + 1].adjusted_edge
            /\ \A j1, j2 \in 1..Len(out) :
                   (j1 < j2 /\ out[j1].adjusted_edge = out[j2].adjusted_edge)
                   => pos(out[j1]) < pos(out[j2])

TiedOpportunitiesKeepEmissionOrder ==
    /\ scan.done
    /\ scan.returned # scan.opportunities
    /\ \E j \in 1..(Len(scan.returned) - 1) :
           /\ scan.returned[j].adjusted_edge = scan.returned[j + 1].adjusted_edge
           /\ scan.returned[j].ticker # scan.returned[j + 1].ticker

\* C17: every emitted opportunity has 0 < price < 100 with the price at
\* least the minimum of its side, adjusted_edge = raw_edge * confidence,
\* and MIN_EDGE_CENTS <= adjusted_edge <= MAX_EDGE_CENTS.
EmittedOpportunitiesWithinLimits ==
    \A k \in 1..Len(scan.opportunities) :
        LET o == scan.opportunities[k]
        IN  /\ 0 < o.price /\ o.price < 100
            /\ o.price >= (IF o.side = "yes" THEN MIN_YES_PRICE(paper)
                                             ELSE MIN_NO_PRICE(paper))
            /\ o.adjusted_edge = o.raw_edge * o.confidence
            /\ MIN_EDGE_CENTS(paper) * EDGE_UNIT <= o.adjusted_edge
            /\ o.adjusted_edge <= MAX_EDGE_CENTS * EDGE_UNIT

OpportunitiesAtTheEdgeFloor ==
    /\ \E k \in 1..Len(scan.opportunities) :
           /\ scan.opportunities[k].side = "yes"
           /\ scan.opportunities[k].adjusted_edge = MIN_EDGE_CENTS(paper) * EDGE_UNIT
    /\ \E k \in 1..Len(scan.opportunities) :
           /\ scan.opportunities[k].side = "no"
           /\ scan.opportunities[k].adjusted_edge = MIN_EDGE_CENTS(paper) * EDGE_UNIT

-----------------------------------------------------------------------------
(* weather_providers.WeatherEnsemble (SpecAccuracy, SpecEnsemble)           *)
(*                                                                         *)
(* Temperatures and errors are tenths of a degree, timestamps are seconds  *)
(* of time.time(), weights are exact fractions in lowest terms.            *)

MaxRecords == 3

HISTORY_LIMIT == 100
MIN_HISTORY   == 5
THIRTY_DAYS   == 30 * 24 * 3600

RECURSIVE GCD(_, _)
GCD(a, b) == IF b = 0 THEN a ELSE GCD(b, a % b)
Rat(n, d) == LET g == GCD(n, d) IN [num |-> n \div g, den |-> d \div g]
RatMul(a, b) == Rat(a.num * b.num, a.den * b.den)
RatAdd(a, b) == Rat(a.num * b.den + b.num * a.den, a.den * b.den)
RatDiv(a, b) == Rat(a.num * b.den, a.den * b.num)

\* build_ensemble: add_provider(..., weight=...)
base_weight(p) ==
    CASE p = "NOAA"            -> Rat(12, 10)
      [] p = "OpenMeteo_GFS"   -> Rat(10, 10)
      [] p = "OpenMeteo_ICON"  -> Rat(9, 10)
      [] p = "OpenMeteo_ECMWF" -> Rat(10, 10)
      [] p = "OpenMeteo_GEM"   -> Rat(8, 10)
NOAA_STALE_PENALTY == Rat(5, 10)

\* config.MODEL_BIAS.get((provider, city), 0.0), in tenths of a degree
model_bias(p, city) ==
    CASE p = "OpenMeteo_GFS" /\ city = "PHX"  -> 5
      [] p = "OpenMeteo_GFS" /\ city = "BOS"  -> 10
      [] p = "OpenMeteo_ICON" /\ city = "HOU" -> 0 - 8
      [] OTHER -> 0

\* The accuracy file a process can find when it starts: none; a young
\* file; a file two providers have filled (one sample a day, the last
\* HISTORY_LIMIT days).
Sample(error, timestamp) == [error |-> error, timestamp |-> timestamp]
Daily(n) ==
    [i \in 1..n |-> Sample((i % 3) * 5, StartTime - (HISTORY_LIMIT - i) * SECONDS_PER_DAY)]
Run(n, error, first) == [i \in 1..n |-> Sample(error, first + i)]
FreshAccuracy == [p \in ProviderNames |-> <<>>]
SparseAccuracy ==
    [p \in ProviderNames |->
        CASE p = "NOAA" ->
                 Run(4, 10, StartTime - 40 * SECONDS_PER_DAY)
                 \o <<Sample(20, StartTime - SECONDS_PER_DAY)>>
          [] p = "OpenMeteo_GFS"   -> Run(5, 5, StartTime - 5 * SECONDS_PER_DAY)
          [] p = "OpenMeteo_ICON"  -> Run(6, 30, StartTime - 5 * SECONDS_PER_DAY)
          [] p = "OpenMeteo_ECMWF" -> Run(3, 10, StartTime - 5 * SECONDS_PER_DAY)
          [] p = "OpenMeteo_GEM"   -> Run(5, 10, StartTime - 40 * SECONDS_PER_DAY)]
FullAccuracy ==
    [p \in ProviderNames |->
        CASE p = "NOAA"          -> Daily(HISTORY_LIMIT - 1)
          [] p = "OpenMeteo_GFS" -> Daily(HISTORY_LIMIT)
          [] OTHER -> <<>>]
SavedAccuracy == {FreshAccuracy, SparseAccuracy, FullAccuracy}

\* record_accuracy: history[-100:]
trim_history_from_back(history) ==
    IF Len(history) > HISTORY_LIMIT THEN SubSeq(history, 1, HISTORY_LIMIT) ELSE history
trim_history(history) ==
    IF Len(history) > HISTORY_LIMIT
    THEN SubSeq(history, Len(history) - HISTORY_LIMIT + 1, Len(history))
    ELSE history

\* what settlement hands to record_accuracy: (predicted, actual)
AccuracyReadings == {<<720, 705>>, <<700, 720>>}

RecordAccuracy(p, predicted, actual) ==
    /\ wx.calls < MaxRecords
    /\ LET sample == Sample(Abs(predicted - actual), now)
       IN  wx' = [wx EXCEPT
                    !.accuracy_history[p] = trim_history(Append(@, sample)),
                    !.recorded[p] = Append(@, sample),
                    !.calls = @ + 1]
    /\ now' = now + 1
    /\ UNCHANGED <<scan, paper, state, pnl_file, last_alert, alerts, pc, cycle, settle,
                   exec, kelly, daemon>>

InitAccuracy ==
    /\ paper \in BOOLEAN
    /\ now = StartTime
    /\ state = load_state_default
    /\ pnl_file = load_pnl_default
    /\ last_alert = 0
    /\ alerts = <<>>
    /\ pc = "accuracy"
    /\ cycle = 1
    /\ settle = NoSettle
    /\ exec = NoExec
    /\ kelly = NoKelly
    /\ daemon = NoDaemon
    /\ scan = NoScan
    /\ \E saved \in SavedAccuracy :
           wx = [NoWx EXCEPT !.accuracy_history = saved, !.recorded = saved]

NextAccuracy ==
    \E p \in ProviderNames, r \in AccuracyReadings : RecordAccuracy(p, r[1], r[2])

SpecAccuracy == InitAccuracy /\ [][NextAccuracy]_vars

\* C20: a provider's history never holds more than 100 samples, every
\* stored error is at least 0, and the history is the last (at most 100)
\* samples recorded for the provider, in the order they were recorded.
HistoryIsTheLastHundredRecorded ==
    \A p \in ProviderNames :
        LET h == wx.accuracy_history[p]
            r == wx.recorded[p]
        IN  /\ Len(h) <= 100
            /\ \A i \in 1..Len(h) : h[i].error >= 0
            /\ Len(h) = Min(Len(r), 100)
            /\ h = SubSeq(r, Len(r) - Len(h) + 1, Len(r))

OldestSamplesDropped ==
    \E p \in ProviderNames :
        /\ wx.calls >= 2
        /\ Len(wx.recorded[p]) > 101
        /\ Len(wx.accuracy_history[p]) = 100
        /\ wx.accuracy_history[p][100].timestamp = now - 1
        /\ wx.accuracy_history[p][1] = wx.recorded[p][Len(wx.recorded[p]) - 99]

\* _get_adjusted_weight: the errors of the samples newer than 30 days
recent_errors(history, t) ==
    LET Recent(s) == s.timestamp > t - THIRTY_DAYS
        recent    == SelectSeq(history, Recent)
    IN  [i \in 1..Len(recent) |-> recent[i].error]

\* min(2.0, max(0.25, 1.0 / max(avg_error, 0.5))) with avg_error the mean
\* of the errors (tenths of a degree)
accuracy_multiplier(errors) ==
    LET total == SumSeq(errors)
        n     == Len(errors)
    IN  IF total <= 5 * n THEN Rat(2, 1)
        ELSE IF total > 40 * n THEN Rat(1, 4)
        ELSE Rat(10 * n, total)

get_adjusted_weight(history, base, t) ==
    IF Len(history) < MIN_HISTORY THEN base
    ELSE IF recent_errors(history, t) = <<>> THEN base
    ELSE RatMul(base, accuracy_multiplier(recent_errors(history, t)))

\* the sum of g over the providers of its domain, in the order the
\* providers were added
RECURSIVE SumRat(_, _)
SumRat(g, k) ==
    IF k = 0 THEN Rat(0, 1)
    ELSE IF Providers[k] \in DOMAIN g THEN RatAdd(SumRat(g, k - 1), g[Providers[k]])
    ELSE SumRat(g, k - 1)

weighted_mean(forecasts, weights) ==
    RatDiv(SumRat([p \in DOMAIN forecasts |-> RatMul(Rat(forecasts[p], 1), weights[p])],
                  Len(Providers)),
           SumRat(weights, Len(Providers)))

\* the forecasts and weights of one call, in provider order
RECURSIVE CallKey(_, _, _)
CallKey(forecasts, weights, k) ==
    IF k = 0 THEN <<>>
    ELSE IF Providers[k] \in DOMAIN forecasts
    THEN Append(CallKey(forecasts, weights, k - 1),
                <<forecasts[Providers[k]], weights[Providers[k]].num,
                  weights[Providers[k]].den>>)
    ELSE CallKey(forecasts, weights, k - 1)

\* The calls whose weighted mean, computed in doubles as
\* sum(forecast * weight) / total_weight, comes out one unit in the last
\* place below the smallest or above the largest individual forecast.
DoubleMeanBelowMin ==
    { <<<<720, 3, 5>>, <<720, 1, 1>>>>,
      <<<<720, 3, 5>>, <<720, 2, 1>>, <<720, 3, 10>>, <<720, 1, 1>>, <<720, 4, 5>>>>,
      <<<<720, 6, 5>>, <<720, 1, 1>>>>,
      <<<<720, 6, 5>>, <<720, 2, 1>>>>,
      <<<<720, 6, 5>>, <<720, 2, 1>>, <<720, 9, 10>>>>,
      <<<<720, 12, 5>>, <<720, 2, 1>>>>,
      <<<<720, 12, 5>>, <<720, 2, 1>>, <<720, 9, 10>>>> }
DoubleMeanAboveMax ==
    { <<<<720, 1, 1>>, <<720, 9, 10>>>>,
      <<<<720, 3, 5>>, <<720, 1, 1>>, <<720, 9, 10>>, <<720, 1, 1>>, <<720, 4, 5>>>>,
      <<<<720, 3, 10>>, <<720, 2, 1>>, <<720, 3, 10>>, <<720, 1, 1>>, <<720, 4, 5>>>>,
      <<<<720, 6, 5>>, <<720, 1, 1>>, <<720, 9, 10>>, <<720, 1, 1>>, <<720, 4, 5>>>> }
double_rounding(forecasts, weights) ==
    LET key == CallKey(forecasts, weights, Len(Providers))
    IN  IF key \in DoubleMeanBelowMin THEN 0 - 1
        ELSE IF key \in DoubleMeanAboveMax THEN 1
        ELSE 0

\* what the providers answer (None for a provider outside `succeeded`)
SucceededSets ==
    { {}, {"NOAA"}, {"NOAA", "OpenMeteo_GFS"}, {"OpenMeteo_GFS", "OpenMeteo_ICON"},
      {"NOAA", "OpenMeteo_GFS", "OpenMeteo_ICON"}, ProviderNames }
ProviderReadings ==
    { [p \in ProviderNames |-> 720],
      [p \in ProviderNames |->
          CASE p = "NOAA"            -> 720
            [] p = "OpenMeteo_GFS"   -> 735
            [] p = "OpenMeteo_ICON"  -> 710
            [] p = "OpenMeteo_ECMWF" -> 725
            [] p = "OpenMeteo_GEM"   -> 740] }
Cities == {"PHX", "DAL"}

get_ensemble_forecast(history, succeeded, reading, city, stale, t) ==
    LET forecasts == [p \in succeeded |-> reading[p] - model_bias(p, city)]
        adjusted  == [p \in succeeded |-> get_adjusted_weight(history[p], base_weight(p), t)]
        weights   == [p \in succeeded |->
                         IF stale /\ p = "NOAA"
                         THEN RatMul(adjusted[p], NOAA_STALE_PENALTY)
                         ELSE adjusted[p]]
    IN  IF succeeded = {}
        THEN [NoEnsembleCall EXCEPT !.called = TRUE, !.city = city, !.stale = stale]
        ELSE [called |-> TRUE, returned |-> TRUE, city |-> city, stale |-> stale,
              forecasts |-> forecasts, adjusted |-> adjusted, weights |-> weights,
              mean |-> weighted_mean(forecasts, weights),
              rounding |-> double_rounding(forecasts, weights),
              provider_count |-> Cardinality(succeeded)]

\* forecast.get_staleness_adjusted_forecast -> get_ensemble_forecast
EnsembleForecast(succeeded, reading, city, stale) ==
    /\ wx' = [wx EXCEPT !.ens = get_ensemble_forecast(wx.accuracy_history, succeeded,
                                                     reading, city, stale, now)]
    /\ UNCHANGED <<scan, paper, now, state, pnl_file, last_alert, alerts, pc, cycle,
                   settle, exec, kelly, daemon>>

InitEnsemble ==
    /\ paper \in BOOLEAN
    /\ now = StartTime
    /\ state = load_state_default
    /\ pnl_file = load_pnl_default
    /\ last_alert = 0
    /\ alerts = <<>>
    /\ pc = "ensemble"
    /\ cycle = 1
    /\ settle = NoSettle
    /\ exec = NoExec
    /\ kelly = NoKelly
    /\ daemon = NoDaemon
    /\ scan = NoScan
    /\ \E saved \in SavedAccuracy :
           wx = [NoWx EXCEPT !.accuracy_history = saved, !.recorded = saved]

NextEnsemble ==
    \E succeeded \in SucceededSets, reading \in ProviderReadings,
       city \in Cities, stale \in BOOLEAN :
        EnsembleForecast(succeeded, reading, city, stale)

SpecEnsemble == InitEnsemble /\ [][NextEnsemble]_vars

\* C18: a provider with fewer than 5 samples newer than 30 days gets
\* exactly its base weight from _get_adjusted_weight, however many older
\* samples its history holds.
FewRecentSamplesGiveBaseWeight ==
    wx.ens.returned =>
        \A p \in DOMAIN wx.ens.adjusted :
            Len(recent_errors(wx.accuracy_history[p], now)) < 5
            => wx.ens.adjusted[p] = base_weight(p)

\* C19: a returned ensemble mean is the weighted mean of the reported
\* individual forecasts, lies between the smallest and the largest of
\* them, and comes with provider_count >= 1.
EnsembleMeanWithinIndividualForecasts ==
    wx.ens.returned =>
        LET f == wx.ens.forecasts
            m == wx.ens.mean
        IN  /\ wx.ens.provider_count >= 1
            /\ wx.ens.provider_count = Cardinality(DOMAIN f)
            /\ m = weighted_mean(f, wx.ens.weights)
            /\ \E p \in DOMAIN f : f[p] * m.den <= m.num
            /\ \E p \in DOMAIN f : m.num <= f[p] * m.den
            /\ wx.ens.rounding = 0

-----------------------------------------------------------------------------
(* The day rollover over whole cycles of kalshi_unified.main *)

\* C22 as stated: at the end of every cycle's execution phase last_trade_date
\* is the current local date, and when execute_trades was entered with another
\* date daily_trades counts only the orders of this call, with the breaker
\* open or closed and with or without opportunities.
DateRolledOverByEndOfCycle ==
    pc = "done" =>
        /\ state.last_trade_date = LocalDay(now)
        /\ (exec.outcome # "none" /\ exec.before.last_trade_date # LocalDay(now))
              => state.daily_trades = Len(exec.placed)

-----------------------------------------------------------------------------
(* The daily trade cap, from a state file written late on a busy day *)

\* load_state() when the state file was saved on local day 0 after `trades`
\* orders of that day, of which one position is still open
load_state_near_limit(is_paper, trades) ==
    [load_state_saved(is_paper, 1) EXCEPT !.daily_trades = trades]

InitDailyCap ==
    /\ paper \in BOOLEAN
    /\ now = StartTime
    /\ state \in { load_state_near_limit(paper, d) :
                     d \in (MAX_DAILY_TRADES - 2)..MAX_DAILY_TRADES }
    /\ pnl_file = load_pnl_default
    /\ last_alert = 0
    /\ alerts = <<>>
    /\ pc = "cycle"
    /\ cycle = 1
    /\ settle = NoSettle
    /\ exec = NoExec
    /\ kelly = NoKelly
    /\ daemon = NoDaemon
    /\ scan = NoScan
    /\ wx = NoWx

SpecDailyCap == InitDailyCap /\ [][Next]_vars

\* C23: starting from daily_trades <= MAX_DAILY_TRADES, daily_trades never
\* exceeds MAX_DAILY_TRADES, and once it has reached MAX_DAILY_TRADES within a
\* call no later opportunity of the list is placed.
DailyTradesNeverExceedCap ==
    /\ [](state.daily_trades <= MAX_DAILY_TRADES)
    /\ [][(pc = "exec" /\ state.daily_trades >= MAX_DAILY_TRADES)
            => /\ exec'.placed = exec.placed
               /\ state'.positions = state.positions
               /\ state'.daily_trades = state.daily_trades]_vars

\* a call entered on the same local date with one trade left has placed it
\* and still has an opportunity of the list to look at
LastTradeOfTheDayPlaced ==
    /\ pc = "exec"
    /\ exec.before.last_trade_date = LocalDay(now)
    /\ exec.before.daily_trades = MAX_DAILY_TRADES - 1
    /\ state.daily_trades = MAX_DAILY_TRADES
    /\ Len(exec.placed) = 1
    /\ exec.n < MaxOpps

-----------------------------------------------------------------------------
(* The ledger under record_pnl *)

\* C24: every record_pnl(amount) call adds amount to pnl_cents and 1 to
\* trades in exactly two buckets, today's daily bucket and the current week's
\* bucket, adds 1 to wins when amount > 0 and otherwise 1 to losses, and
\* changes no other bucket; so in every bucket trades never decreases and
\* trades = wins + losses.
RecordPnlUpdatesTwoBuckets ==
    /\ [](\A k \in LedgerKeys :
            /\ pnl_file.daily[k].trades = pnl_file.daily[k].wins + pnl_file.daily[k].losses
            /\ pnl_file.weeks[k].trades = pnl_file.weeks[k].wins + pnl_file.weeks[k].losses)
    /\ [][pnl_file' # pnl_file =>
            LET amount == settlement_pnl(state.positions[settle.i],
                                         settle'.outcomes[Len(settle'.outcomes)])
                added(b) == [pnl_cents |-> b.pnl_cents + amount,
                             trades    |-> b.trades + 1,
                             wins      |-> b.wins + (IF amount > 0 THEN 1 ELSE 0),
                             losses    |-> b.losses + (IF amount > 0 THEN 0 ELSE 1)]
            IN  /\ pnl_file'.daily[LocalDay(now)] = added(pnl_file.daily[LocalDay(now)])
                /\ pnl_file'.weeks[WeekKey(now)] = added(pnl_file.weeks[WeekKey(now)])
                /\ \A k \in LedgerKeys \ {LocalDay(now)} :
                      pnl_file'.daily[k] = pnl_file.daily[k]
                /\ \A k \in LedgerKeys \ {WeekKey(now)} :
                      pnl_file'.weeks[k] = pnl_file.weeks[k]]_vars
    /\ [][\A k \in LedgerKeys :
            /\ pnl_file'.daily[k].trades >= pnl_file.daily[k].trades
            /\ pnl_file'.weeks[k].trades >= pnl_file.weeks[k].trades]_vars

\* one check_settled call recorded a win and a loss on local day 1; the
\* buckets of day 0 and of its week were not touched
WinAndLossRecordedInOneDay ==
    /\ pnl_file.daily[1].trades = 2
    /\ pnl_file.daily[1].wins = 1
    /\ pnl_file.daily[1].losses = 1
    /\ pnl_file.weeks[1].trades = 2
    /\ pnl_file.weeks[1].pnl_cents = pnl_file.daily[1].pnl_cents
    /\ pnl_file.daily[0] = EmptyBucket
    /\ pnl_file.weeks[0] = EmptyBucket

-----------------------------------------------------------------------------
(* The loss limits inside one execute_trades call *)

\* C27 as stated: whenever execute_trades places an order, the daily and the
\* weekly loss limit are not breached at that moment, the exposure of the
\* orders placed earlier in the same call included.
LossLimitsHoldAtEveryPlacement ==
    [][Len(exec'.placed) = Len(exec.placed) + 1
         => check_circuit_breaker(pnl_file, state, now)]_vars

-----------------------------------------------------------------------------
(* A live order that the venue does not accept *)

\* C29 as stated: in live mode a failed placement (no 'order' in the venue's
\* answer, or place_order raises) leaves state.positions, state.daily_trades,
\* the held-ticker set, the city-date set and the working balance unchanged.
FailedOrderChangesNothing ==
    [][(pc = "exec" /\ ~paper /\ exec'.n = exec.n + 1 /\ exec'.last_skip = "none"
          /\ Len(exec'.placed) = Len(exec.placed))
         => /\ state'.positions = state.positions
            /\ state'.daily_trades = state.daily_trades
            /\ exec'.all_held = exec.all_held
            /\ exec'.city_date_traded = exec.city_date_traded
            /\ exec'.balance = exec.balance]_vars

-----------------------------------------------------------------------------
(* The open-position gate and the positions of the local state *)

\* C30 as stated: execute_trades places an order only while the positions
\* open before the call, those of state.positions included, plus the orders
\* placed in this call are fewer than MAX_OPEN_POSITIONS, in paper as in live
\* mode; so state.positions never holds more than MAX_OPEN_POSITIONS.
GateCountsStatePositions ==
    /\ [](Len(state.positions) <= MAX_OPEN_POSITIONS)
    /\ [][Len(exec'.placed) = Len(exec.placed) + 1
            => LET local_only ==
                       { i \in 1..Len(exec.before.positions) :
                           ~\E et \in exec.open_tickers :
                               StartsWith(exec.before.positions[i].ticker, et) }
               IN  exec.open_count + Cardinality(local_only) + Len(exec.placed)
                       < MAX_OPEN_POSITIONS]_vars

-----------------------------------------------------------------------------
(* kalshi_unified.main stopped and started again: the positions in memory, *)
(* the state file and the P&L ledger                                       *)

MaxRestarts == 1      \* times the stopped daemon is started again

\* what the venue answers for one position of check_settled; with
\* "yes_ledger_error" / "no_ledger_error" the market has a result and
\* record_pnl raises before the ledger is rewritten
RestartAnswers == MarketAnswers \cup {"yes_ledger_error", "no_ledger_error"}

result_of(answer) ==
    IF answer \in {"yes", "yes_ledger_error"} THEN "yes" ELSE "no"

\* settlement.py:69-114 over the positions from index i on: the positions
\* kept, the total, the ledger and the tickers passed to record_pnl
RECURSIVE check_settled(_, _, _, _, _)
check_settled(positions, answers, i, acc, t) ==
    IF i > Len(positions) THEN acc
    ELSE LET pos == positions[i]
             amt == settlement_pnl(pos, result_of(answers[i]))
         IN  check_settled(positions, answers, i + 1,
                CASE answers[i] = "open" ->
                       [acc EXCEPT !.new_positions = Append(@, pos)]
                  [] answers[i] = "raise" ->
                       [acc EXCEPT !.new_positions = on_settle_error(@, pos)]
                  [] answers[i] \in {"yes", "no"} ->
                       [acc EXCEPT !.total = @ + amt,
                                   !.pnl = record_pnl(@, amt, t),
                                   !.recorded = Append(@, pos.ticker)]
                  [] OTHER ->
                       [acc EXCEPT !.total = @ + amt,
                                   !.new_positions = on_settle_error(@, pos)],
                t)

\* kalshi_unified.py:1637
DaemonCheckSettled(answers) ==
    /\ daemon.pc = "check_settled"
    /\ LET out == check_settled(state.positions, answers, 1,
                      [new_positions |-> <<>>, total |-> state.total_pnl_cents,
                       pnl |-> pnl_file, recorded |-> daemon.recorded], now)
       IN  /\ state' = [state EXCEPT !.positions = out.new_positions,
                                     !.total_pnl_cents = out.total]
           /\ pnl_file' = out.pnl
           /\ daemon' = [daemon EXCEPT !.recorded = out.recorded, !.pc = "save_state_1"]
    /\ UNCHANGED <<scan, wx, paper, now, last_alert, alerts, pc, cycle, settle, exec, kelly>>

\* save_state(state) at kalshi_unified.py:1638, 1649 and 1657, completed
DaemonSaveState ==
    /\ daemon.pc \in {"save_state_1", "save_state_2", "paper_save"}
    /\ daemon' = [daemon EXCEPT
                    !.saved = state,
                    !.pc = CASE daemon.pc = "save_state_1" -> "find_opportunities"
                             [] daemon.pc = "save_state_2" -> IF paper THEN "paper_save"
                                                                       ELSE "sleep"
                             [] OTHER -> "sleep"]
    /\ UNCHANGED <<scan, wx, paper, now, state, pnl_file, last_alert, alerts, pc, cycle, settle,
                   exec, kelly>>

\* execute_trades on a list of one opportunity: the state it leaves
execute_single(st, pnl_data, opp, is_paper, bal, v, venue, t) ==
    IF ~breaker_closed(is_paper, pnl_data, st, t) THEN st
    ELSE LET rolled == rollover(st, t)
             ex == [NoExec EXCEPT
                      !.balance = bal,
                      !.open_tickers = v.held,
                      !.open_count = Cardinality(v.held) + v.others,
                      !.all_held = v.held \cup { st.positions[i].ticker :
                                                   i \in 1..Len(st.positions) },
                      !.city_date_traded = initial_city_dates(st)]
         IN  IF \/ limit_reached(rolled, ex)
                \/ skip_reason(opp, rolled, ex) # "none"
                \/ execute_result(is_paper, venue) = 0
             THEN rolled
             ELSE [rolled EXCEPT
                     !.daily_trades = @ + 1,
                     !.positions = Append(@, position_record(opp, sized_count(opp, bal),
                                                             t, is_paper))]

\* kalshi_unified.py:1640-1647 when the scan returns nothing
DaemonNoOpportunities ==
    /\ daemon.pc = "find_opportunities"
    /\ daemon' = [daemon EXCEPT !.pc = "save_state_2"]
    /\ UNCHANGED <<scan, wx, paper, now, state, pnl_file, last_alert, alerts, pc, cycle, settle,
                   exec, kelly>>

\* kalshi_unified.py:1640-1645 when the scan returns one opportunity; a
\* market that has settled is closed and no longer offered
DaemonExecuteTrades(opp, bal, v, venue) ==
    /\ daemon.pc = "find_opportunities"
    /\ \A i \in 1..Len(daemon.recorded) : daemon.recorded[i] # opp.ticker
    /\ state' = execute_single(state, pnl_file, opp, paper, bal, v, venue, now)
    /\ IF ~breaker_closed(paper, pnl_file, state, now) /\ alert_due(now, last_alert)
       THEN /\ alerts' = Append(alerts, now)
            /\ last_alert' = now
       ELSE UNCHANGED <<alerts, last_alert>>
    /\ daemon' = [daemon EXCEPT !.pc = "save_state_2"]
    /\ UNCHANGED <<scan, wx, paper, now, pnl_file, pc, cycle, settle, exec, kelly>>

\* kalshi_unified.py:1659-1661
DaemonSleep ==
    /\ daemon.pc = "sleep"
    /\ cycle < MaxCycles
    /\ now' = now + get_poll_interval(now)
    /\ cycle' = cycle + 1
    /\ daemon' = [daemon EXCEPT !.pc = "check_settled"]
    /\ UNCHANGED <<scan, wx, paper, state, pnl_file, last_alert, alerts, pc, settle, exec, kelly>>

\* the process is stopped from outside between two steps of the loop
DaemonStops ==
    /\ daemon.pc # "stopped"
    /\ daemon' = [daemon EXCEPT !.pc = "stopped"]
    /\ UNCHANGED <<scan, wx, paper, now, state, pnl_file, last_alert, alerts, pc, cycle, settle,
                   exec, kelly>>

\* kalshi_unified.py:1619: the daemon is started again and load_state()
\* reads the state file; the throttle of the alert starts at 0 again
DaemonRestart ==
    /\ daemon.pc = "stopped"
    /\ daemon.restarts < MaxRestarts
    /\ state' = daemon.saved
    /\ last_alert' = 0
    /\ daemon' = [daemon EXCEPT !.pc = "check_settled", !.restarts = @ + 1]
    /\ UNCHANGED <<scan, wx, paper, now, pnl_file, alerts, pc, cycle, settle, exec, kelly>>

\* inputs of the restarted daemon: the scan offers the DAL or the NOLA
\* market, the venue reports a balance of 560 cents and no other position
RestartOpportunities == { o \in Opportunities : o.city \in {"DAL", "NOLA"} }
RestartBalance       == 560
RestartPortfolio     == [held |-> {}, others |-> 0]

InitRestart ==
    /\ paper \in BOOLEAN
    /\ now = StartTime
    /\ state = load_state_saved(paper, 1)
    /\ pnl_file = load_pnl_default
    /\ last_alert = 0
    /\ alerts = <<>>
    /\ pc = "main"
    /\ cycle = 1
    /\ settle = NoSettle
    /\ exec = NoExec
    /\ kelly = NoKelly
    /\ daemon = [NoDaemon EXCEPT !.pc = "check_settled", !.saved = state]
    /\ scan = NoScan
    /\ wx = NoWx

NextRestart ==
    \/ \E answers \in [1..Len(state.positions) -> RestartAnswers] :
          DaemonCheckSettled(answers)
    \/ DaemonSaveState
    \/ DaemonNoOpportunities
    \/ \E opp \in RestartOpportunities, venue \in (IF paper THEN {"order"} ELSE VenueResults) :
          DaemonExecuteTrades(opp, IF paper THEN PAPER_BALANCE ELSE RestartBalance,
                              RestartPortfolio, venue)
    \/ DaemonSleep
    \/ DaemonStops
    \/ DaemonRestart

SpecRestart == InitRestart /\ [][NextRestart]_vars

\* C28 as stated: each position's realized P&L is passed to record_pnl at
\* most once over the daemon's lifetime, also when the process stops after
\* record_pnl has written the ledger and before the next save_state, and is
\* started again from the state file.
PnlRecordedAtMostOncePerPosition ==
    \A i, j \in 1..Len(daemon.recorded) :
        i # j => daemon.recorded[i] # daemon.recorded[j]

-----------------------------------------------------------------------------
(* kalshi/scanner.py: find_opportunities city by city, with markets whose  *)
(* response lacks a field                                                  *)

\* the cities of the scan, in the order of SERIES
ScanCities == <<"HOU", "DAL">>

CityTickers(city) ==
    IF city = "HOU" THEN {"HOU-T60", "HOU-T61"} ELSE {"DAL-T60", "DAL-T61"}

\* a market of the response: its fields, its strike_type and whether the
\* response carries a 'ticker' key
Listed(m, strike_type, has_ticker) ==
    [m |-> m, strike_type |-> strike_type, has_ticker |-> has_ticker]

\* complete markets: 'between' has both strikes, 'less' the cap, 'greater'
\* the floor
CompleteMarkets(city) ==
    { Listed(m,
             IF m.floor_strike # NoStrike /\ m.cap_strike # NoStrike THEN "between"
             ELSE IF m.cap_strike # NoStrike THEN "less" ELSE "greater",
             TRUE) : m \in { x \in ScanMarkets : x.ticker \in CityTickers(city) } }

\* incomplete markets of a city: no ticker; a 'between' market without its
\* cap strike; a 'greater' market without its floor strike but with a cap;
\* a 'less' market without any strike
IncompleteMarkets(city) ==
    LET quote(t, floor, cap) ==
            [ticker |-> t, yes_ask |-> 25, yes_bid |-> 24, volume |-> 100,
             floor_strike |-> floor, cap_strike |-> cap, forecast_temp |-> 700,
             fair_p |-> 64, confidence |-> 100]
    IN  IF city = "HOU"
        THEN { Listed(quote("", 600, NoStrike), "greater", FALSE),
               Listed(quote("HOU-B60", 600, NoStrike), "between", TRUE) }
        ELSE { Listed(quote("DAL-T75", NoStrike, 750), "greater", TRUE),
               Listed(quote("DAL-L60", NoStrike, NoStrike), "less", TRUE) }

is_complete(w) ==
    /\ w.has_ticker
    /\ w.strike_type \in {"between", "greater"} => w.m.floor_strike # NoStrike
    /\ w.strike_type \in {"between", "less"} => w.m.cap_strike # NoStrike

\* scanner.py:384-431: _scan_market gets as far as fair_probability
reaches_fair_probability(m, is_paper) ==
    /\ ~(m.floor_strike = NoStrike /\ m.cap_strike = NoStrike)
    /\ ~((m.yes_ask = 0 /\ m.yes_bid = 0) \/ m.volume < MIN_VOLUME)
    /\ (IF m.yes_ask > 0 /\ m.yes_bid > 0 THEN m.yes_ask - m.yes_bid ELSE 0) <= MAX_SPREAD
    /\ ~(strike_distance(m) < proximity_threshold(is_paper))

\* _scan_market raises: KeyError at m['ticker'] (scanner.py:382), or
\* TypeError in fair_probability when the strike its strike_type subtracts
\* from is None (probability.py:108-115). Nothing in _scan_market or
\* _scan_event catches either.
scan_market_raises(w, is_paper) ==
    \/ ~w.has_ticker
    \/ /\ reaches_fair_probability(w.m, is_paper)
       /\ w.m.forecast_temp # 0
       /\ \/ w.strike_type \in {"between", "greater"} /\ w.m.floor_strike = NoStrike
          \/ w.strike_type \in {"between", "less"} /\ w.m.cap_strike = NoStrike

\* how many markets of the response _scan_market returns from: all of them,
\* or those before the first one that raises
returned_from(markets, is_paper) ==
    IF \E i \in 1..Len(markets) : scan_market_raises(markets[i], is_paper)
    THEN (CHOOSE i \in 1..Len(markets) :
             /\ scan_market_raises(markets[i], is_paper)
             /\ \A j \in 1..(i - 1) : ~scan_market_raises(markets[j], is_paper)) - 1
    ELSE Len(markets)

\* the log entries and opportunities of the first n markets of a response
RECURSIVE scan_markets(_, _, _, _)
scan_markets(markets, n, is_paper, acc) ==
    IF n = 0 THEN acc
    ELSE LET before == scan_markets(markets, n - 1, is_paper, acc)
             m      == markets[n].m
             r      == scan_market(m, is_paper)
         IN  [before EXCEPT
                !.scanned = Append(@, m.ticker),
                !.opportunities = @ \o r.emitted,
                !.log = Append(@, [market |-> m, records |-> r.records,
                                   emitted |-> r.emitted, yes_kind |-> r.yes_kind,
                                   no_evaluated |-> r.no_evaluated])]

\* the responses the venue can give for a city: up to MaxMarkets different
\* markets in any order
CityResponses(city) ==
    LET all == CompleteMarkets(city) \cup IncompleteMarkets(city)
    IN  UNION { { s \in [1..n -> all] : \A i, j \in 1..n : i # j => s[i] # s[j] }
                : n \in 1..Min(MaxMarkets, Cardinality(all)) }

\* scanner.py:297-315: one iteration of the loop over SERIES, the try block
\* and its handler
ScanCity(markets) ==
    /\ ~scan.done
    /\ Len(scan.responses) < Len(ScanCities)
    /\ LET n == returned_from(markets, paper)
       IN  scan' = [scan_markets(markets, n, paper, scan) EXCEPT
                      !.responses = Append(@, [city |-> ScanCities[Len(scan.responses) + 1],
                                               markets |-> markets, returned_from |-> n])]
    /\ UNCHANGED <<wx, paper, now, state, pnl_file, last_alert, alerts, pc, cycle, settle,
                   exec, kelly, daemon>>

\* kalshi_request raises for the city: the handler logs it
ScanCityRequestFails ==
    /\ ~scan.done
    /\ Len(scan.responses) < Len(ScanCities)
    /\ scan' = [scan EXCEPT
                  !.responses = Append(@, [city |-> ScanCities[Len(scan.responses) + 1],
                                           markets |-> <<>>, returned_from |-> 0])]
    /\ UNCHANGED <<wx, paper, now, state, pnl_file, last_alert, alerts, pc, cycle, settle,
                   exec, kelly, daemon>>

\* scanner.py:317-318
ScanCitiesReturn ==
    /\ ~scan.done
    /\ Len(scan.responses) = Len(ScanCities)
    /\ scan' = [scan EXCEPT !.returned = sort_by_adjusted_edge(scan.opportunities),
                            !.done = TRUE]
    /\ UNCHANGED <<wx, paper, now, state, pnl_file, last_alert, alerts, pc, cycle, settle,
                   exec, kelly, daemon>>

NextCityScan ==
    \/ \E markets \in CityResponses(ScanCities[Min(Len(scan.responses) + 1, Len(ScanCities))]) :
          ScanCity(markets)
    \/ ScanCityRequestFails
    \/ ScanCitiesReturn

SpecCityScan == InitScanner /\ [][NextCityScan]_vars

\* C21 as stated: a market whose response lacks a required field causes only
\* that market to be skipped; every other market of the same city's response
\* is still evaluated in the same scan.
IncompleteMarketSkipsOnlyItself ==
    \A c \in 1..Len(scan.responses) :
        \A i \in 1..Len(scan.responses[c].markets) :
            is_complete(scan.responses[c].markets[i])
                => /\ i <= scan.responses[c].returned_from
                   /\ \E k \in 1..Len(scan.log) :
                         scan.log[k].market = scan.responses[c].markets[i].m

-----------------------------------------------------------------------------
(* Raw and confidence-adjusted edge of every side evaluation *)

\* C25 as stated: for every side evaluation in which the scanner computes an
\* edge, emitted or not, with confidence in [0, 1], adjusted_edge <= raw_edge.
AdjustedEdgeAtMostRawEdge ==
    \A k \in 1..Len(scan.log) :
        \A i \in 1..Len(scan.log[k].records) :
            LET r == scan.log[k].records[i] IN
            (r.has_edge /\ scan.log[k].market.confidence \in 0..100)
                => r.adjusted_edge <= 100 * r.raw_edge

-----------------------------------------------------------------------------
(* kalshi/probability.py: fair_probability *)

\* probabilities are kept in units of 1/10000
PROB_UNIT == 10000

\* forecast_temp is None
NoForecast == 0 - 999

\* inputs: forecasts in degrees F, the (floor, cap) strikes of a market, the
\* lead time in days and the strike_type ("none": not one of the three).
\* city and target_date are not given, so std is FORECAST_STD_DEV = 1.1, and
\* the three providers agree, so confidence is 1.0 and confidence_mult 1.0.
FairForecasts   == {NoForecast, 0 - 10, 0, 10, 70}
FairStrikes     == {<<1, 3>>, <<9, 11>>, <<69, 71>>}
FairDaysAhead   == 0..2
FairStrikeTypes == {"less", "greater", "between", "none"}

\* normal_cdf(d / adjusted_std) in units of 1/10000, as CPython computes it,
\* for a difference d between strike and forecast and adjusted_std =
\* 1.1 * decay with decay 0.5, 0.75, 1.35 for days_ahead 0, 1, 2:
\* <<d, days_ahead, value>>
PhiTable ==
    { <<-69, 0, 0>>, <<-69, 1, 0>>, <<-69, 2, 0>>, <<-67, 0, 0>>, <<-67, 1, 0>>,
      <<-67, 2, 0>>, <<-61, 0, 0>>, <<-61, 1, 0>>, <<-61, 2, 0>>, <<-59, 0, 0>>,
      <<-59, 1, 0>>, <<-59, 2, 0>>, <<-9, 0, 0>>, <<-9, 1, 0>>, <<-9, 2, 0>>,
      <<-7, 0, 0>>, <<-7, 1, 0>>, <<-7, 2, 0>>, <<-1, 0, 345>>, <<-1, 1, 1127>>,
      <<-1, 2, 2503>>, <<1, 0, 9655>>, <<1, 1, 8873>>, <<1, 2, 7497>>, <<3, 0, 10000>>,
      <<3, 1, 9999>>, <<3, 2, 9783>>, <<9, 0, 10000>>, <<9, 1, 10000>>, <<9, 2, 10000>>,
      <<11, 0, 10000>>, <<11, 1, 10000>>, <<11, 2, 10000>>, <<13, 0, 10000>>, <<13, 1, 10000>>,
      <<13, 2, 10000>>, <<19, 0, 10000>>, <<19, 1, 10000>>, <<19, 2, 10000>>, <<21, 0, 10000>>,
      <<21, 1, 10000>>, <<21, 2, 10000>>, <<59, 0, 10000>>, <<59, 1, 10000>>, <<59, 2, 10000>>,
      <<61, 0, 10000>>, <<61, 1, 10000>>, <<61, 2, 10000>>, <<69, 0, 10000>>, <<69, 1, 10000>>,
      <<69, 2, 10000>>, <<71, 0, 10000>>, <<71, 1, 10000>>, <<71, 2, 10000>>, <<79, 0, 10000>>,
      <<79, 1, 10000>>, <<79, 2, 10000>>, <<81, 0, 10000>>, <<81, 1, 10000>>, <<81, 2, 10000>> }

normal_cdf(d, days_ahead) ==
    (CHOOSE t \in PhiTable : t[1] = d /\ t[2] = days_ahead)[3]

\* probability.py:108-118: the value for the strike geometry
cdf_value(forecast_temp, floor_strike, cap_strike, days_ahead, strike_type) ==
    CASE strike_type = "less" ->
           normal_cdf(cap_strike - forecast_temp, days_ahead)
      [] strike_type = "greater" ->
           PROB_UNIT - normal_cdf(floor_strike - forecast_temp, days_ahead)
      [] strike_type = "between" ->
           normal_cdf(cap_strike - forecast_temp, days_ahead)
               - normal_cdf(floor_strike - forecast_temp, days_ahead)
      [] OTHER -> PROB_UNIT \div 2

\* probability.py:85: `not forecast_temp` is true for None and for 0
forecast_is_falsy(forecast_temp) == forecast_temp = NoForecast \/ forecast_temp = 0

fair_probability(forecast_temp, floor_strike, cap_strike, days_ahead, strike_type) ==
    IF forecast_is_falsy(forecast_temp)
    THEN PROB_UNIT \div 2
    ELSE cdf_value(forecast_temp, floor_strike, cap_strike, days_ahead, strike_type)

FairProbabilityCall(forecast_temp, strikes, days_ahead, strike_type) ==
    /\ scan' = [scan EXCEPT !.fair_call =
                  [called |-> TRUE, forecast_temp |-> forecast_temp,
                   floor_strike |-> strikes[1], cap_strike |-> strikes[2],
                   days_ahead |-> days_ahead, strike_type |-> strike_type,
                   out |-> fair_probability(forecast_temp, strikes[1], strikes[2],
                                            days_ahead, strike_type)]]
    /\ UNCHANGED <<wx, paper, now, state, pnl_file, last_alert, alerts, pc, cycle, settle,
                   exec, kelly, daemon>>

NextFairProbability ==
    \E f \in FairForecasts, s \in FairStrikes, d \in FairDaysAhead, t \in FairStrikeTypes :
        FairProbabilityCall(f, s, d, t)

SpecFairProbability == InitScanner /\ [][NextFairProbability]_vars

\* C26 as stated: for every numeric forecast temperature, 0 and negative
\* values included, and a valid strike_type, fair_probability returns the
\* CDF-based value of the strike type; 0.5 is the answer only for an absent
\* forecast or an unknown strike_type.
FairProbabilityIsCdfForNumericForecast ==
    LET c == scan.fair_call IN
    c.called =>
        IF c.forecast_temp # NoForecast /\ c.strike_type \in {"less", "greater", "between"}
        THEN c.out = cdf_value(c.forecast_temp, c.floor_strike, c.cap_strike,
                               c.days_ahead, c.strike_type)
        ELSE c.out = PROB_UNIT \div 2

====
